---- MODULE Spec2Model ----
\* Model of the service lifecycle manager (sentinel-service-kvm.py,
\* class KVMServiceManager): the registry of service records, the operator
\* calls register_service / start_service / stop_service / start_monitoring,
\* and the background thread running _monitor_loop.  The operator thread and
\* the monitor thread share the registry without any lock, so every handler is
\* cut into steps at its reads and writes of shared state and at its blocking
\* calls (subprocess.run, time.sleep, os.kill).
EXTENDS Integers, Sequences, FiniteSets, TLC

\* ------------------------------------------------------------------ bounds
MaxPid == 2
MaxMonStarts == 4
MaxOps == 3
MaxOpsAlone == 4
MaxOpsSupervised == 2

\* ------------------------------------------------------- program constants
NoPid == 0
MemFloorMB == 512
CpuWarnPercent == 80
PollLimit == 10
MaxRestarts == 3

Names == {"n1", "n2"}
Types == {"wireguard", "xray", "shadowsocks", "tor", "zapret", "hysteria2"}
PIDs == 1..MaxPid
MemLevels == {MemFloorMB - 256, MemFloorMB + 512}
CpuLevels == {CpuWarnPercent - 70, CpuWarnPercent + 15}
Threads == {"op", "mon"}

VARIABLES
  services,       \* self.services: name -> record (DOMAIN = registered names)
  order,          \* insertion order of the keys of self.services
  orphan,         \* <<r>>: a record replaced by register_service while the
                  \* monitor still holds a reference to it; <<>> otherwise
  kvm_resources,  \* self.kvm_resources, read once in __init__
  running,        \* self.running
  th,             \* per-thread frame: program counter and locals
  it,             \* the monitor's dict iterator: [idx, size]
  procs,          \* OS process table: pid -> [kind, owner]
  pidfile,        \* /var/run/shadowsocks-<name>.pid
  cgroup,         \* /sys/fs/cgroup/sentinel/<name>: [exists, mem, cpu, procs]
  hostMem,        \* psutil.virtual_memory().available, in MB, as it was at
                  \* construction and then at each admission check (what it
                  \* is in between is read by nothing)
  monStarts,      \* history: start_service calls the monitor made for a name
                  \* since the last operator call on that name, counting only
                  \* those made while no operator call on it was in flight
  ops,            \* the register / start / stop / get_status calls the
                  \* operator has left in this run
  scope,          \* the registrations <<name, type>> the run draws from
  request,        \* the arguments (protocol, data) the parser is called with
  results,        \* the dicts KVMProtocolParser.parse has returned, in order
  tags,           \* the tags _detect_protocol has returned, in order
  now,            \* the clock datetime.now() reads, in calls made so far
  protocols,      \* SentinelKVMOrchestrator.protocols: name -> ProtocolConfig
  nftables_initialized,  \* SentinelKVMOrchestrator.nftables_initialized
  orch            \* the orchestrator's caller: the calls it has left, and
                  \* its last call with the value that call returned

\* the variables of the parser runs; the service manager never touches them
pvars == <<request, results, tags, now>>

\* the variables of the orchestrator runs (sentinel-core-kvm.py); the service
\* manager and the parser never touch them
ovars == <<protocols, nftables_initialized, orch>>

vars == <<services, order, orphan, kvm_resources, running, th, it, procs,
          pidfile, cgroup, hostMem, monStarts, ops, scope, pvars, ovars>>

\* --------------------------------------------------------------- helpers
Min(S) == CHOOSE x \in S : \A y \in S : x <= y

Registered == DOMAIN services

NoProc == [kind |-> "none", owner |-> "none"]

Live == {p \in PIDs : procs[p].kind # "none"}

LiveOf(n) == {p \in Live : procs[p].owner = n}

NoCgroup == [exists |-> FALSE, mem |-> FALSE, cpu |-> FALSE, procs |-> {}]

\* got: <<pid>> once the launch routine of this start_service call has stored
\* a pid (kept after a successful return, as what that start recorded);
\* entry: <<e>> inside the operator's start_service or stop_service, e
\* being what the call found on entry
Idle == [pc |-> "idle", call |-> "none", name |-> "none", ref |-> "registry",
         ok |-> FALSE, rc |-> 0, polls |-> 0, cnt |-> 0, ret |-> "none",
         got |-> <<>>, entry |-> <<>>]

\* the record a new registration stores
NewRecord(ty) ==
  [type |-> ty, status |-> "stopped", pid |-> NoPid, start_time |-> "None",
   memory_usage |-> 0, cpu_usage |-> 0,
   restart_count |-> 0, last_error |-> "None"]

\* the dict object the local variable `service` of thread t refers to
Rec(t) == IF th[t].ref = "orphan" THEN orphan[1] ELSE services[th[t].name]

\* a write through the local variable `service` of thread t; drop: the frame
\* holding the reference returns in the same step (only the monitor can hold
\* a replaced record, which is garbage once its frame is gone)
Store(t, r, drop) ==
  /\ services' = IF th[t].ref = "orphan" THEN services
                 ELSE [services EXCEPT ![th[t].name] = r]
  /\ orphan' = IF t = "mon" /\ drop THEN <<>>
               ELSE IF th[t].ref = "orphan" THEN <<r>> ELSE orphan

\* the frame of thread t after its call returned okv: the operator is idle
\* again (its last call and result stay visible), the monitor goes on with
\* the next item of its iteration
Return(t, okv) ==
  th' = [th EXCEPT ![t] =
           IF t = "op"
           THEN [Idle EXCEPT !.call = th[t].call, !.name = th[t].name, !.ret = okv,
                             !.got = IF okv = "True" THEN th[t].got ELSE <<>>]
           ELSE [Idle EXCEPT !.pc = "m_next"]]

Goto(t, pc) == th' = [th EXCEPT ![t].pc = pc]

\* the operator is inside start_service(n) or stop_service(n)
OpBusyWith(n) == th["op"].pc # "idle" /\ th["op"].name = n

\* pgrep pattern / command-line token of the backend of a service type
ProcKind(ty) ==
  CASE ty = "wireguard" -> "wg-quick"
    [] ty = "shadowsocks" -> "ss-redir"
    [] OTHER -> ty

_process_exists(pid) == pid \in Live

\* pgrep -f '<name>': the first (lowest) matching pid, or None
_find_pid(kind) ==
  LET m == {p \in Live : procs[p].kind = kind}
  IN IF m = {} THEN NoPid ELSE Min(m)

_get_wireguard_pid == _find_pid("wg-quick")

MemoryHeavy == {"xray", "adguardhome", "hysteria2"}

CpuChecked == {"xray", "sing-box"}

\* _check_resources: memory is a hard gate, decided on the snapshot held in
\* self.kvm_resources; a CPU reading above the threshold only logs a warning
_check_resources(ty, cpu) ==
  LET low_memory == /\ ty \in MemoryHeavy
                    /\ kvm_resources.memory_available_mb < MemFloorMB
      cpu_warning == ty \in CpuChecked /\ cpu > CpuWarnPercent
  IN IF low_memory THEN FALSE
     ELSE IF cpu_warning THEN TRUE
     ELSE TRUE

\* ------------------------------------------------------------------ Init
InitIn(registrations, calls) ==
  /\ scope = registrations
  /\ services = <<>>
  /\ order = <<>>
  /\ orphan = <<>>
  /\ hostMem \in MemLevels
  /\ kvm_resources = [memory_available_mb |-> hostMem]
  /\ running = FALSE
  /\ th = [t \in Threads |-> IF t = "mon" THEN [Idle EXCEPT !.pc = "off"] ELSE Idle]
  /\ it = [idx |-> 0, size |-> 0]
  /\ procs = [p \in PIDs |-> NoProc]
  /\ pidfile = [n \in Names |-> NoPid]
  /\ cgroup = [n \in Names |-> NoCgroup]
  /\ monStarts = [n \in Names |-> 0]
  /\ ops = calls
  /\ request = [protocol |-> "auto", data |-> <<>>]
  /\ results = <<>>
  /\ tags = <<>>
  /\ now = 0
  /\ protocols = <<>>
  /\ nftables_initialized = FALSE
  /\ orch = [left |-> 0, call |-> "none", name |-> "none", ret |-> "none"]

\* one service name, registered with any of the types; the second name is
\* never registered
Init == InitIn({"n1"} \X Types, MaxOps)

\* ------------------------------------------------------- operator calls
\* the operator issues a call: it is idle, and the run has calls left
OpCall ==
  /\ th["op"].pc = "idle"
  /\ ops > 0
  /\ ops' = ops - 1
  /\ scope' = scope

\* register_service(name, service_type, config): one dict store; a record
\* already stored under the name is replaced by a fresh one
register_service(n, ty) ==
  /\ OpCall
  /\ <<n, ty>> \in scope
  /\ services' = (n :> NewRecord(ty)) @@ services
  /\ order' = IF n \in Registered THEN order ELSE Append(order, n)
  /\ IF n \in Registered /\ th["mon"].name = n /\ th["mon"].ref = "registry"
     THEN /\ orphan' = <<services[n]>>
          /\ th' = [th EXCEPT !["mon"].ref = "orphan",
                              !["op"] = [Idle EXCEPT !.call = "register"]]
     ELSE /\ orphan' = orphan
          /\ th' = [th EXCEPT !["op"] = [Idle EXCEPT !.call = "register"]]
  /\ monStarts' = [monStarts EXCEPT ![n] = 0]
  /\ UNCHANGED <<kvm_resources, pvars, ovars, running, it, procs, pidfile, cgroup, hostMem>>

\* start_monitoring: sets self.running and starts the monitor thread
start_monitoring ==
  /\ th["op"].pc = "idle"
  /\ th["mon"].pc = "off"
  /\ running' = TRUE
  /\ th' = [th EXCEPT !["mon"].pc = "m_loop",
                      !["op"] = [Idle EXCEPT !.call = "start_monitoring"]]
  /\ UNCHANGED <<services, order, orphan, kvm_resources, pvars, ovars, it, procs, pidfile,
                 cgroup, hostMem, monStarts, ops, scope>>

\* what psutil reports for a live process: resident memory in MB (never 0)
\* and cpu_percent() (0.0 on the first call for a process)
MemSamples == {64}
CpuSamples == {0, 5}

\* get_status, lines 524-531: for every record with a pid, the usage of that
\* process is stored into the record; psutil.Process raises for a pid that
\* is gone, and the bare except leaves the record as it was
get_status ==
  /\ OpCall
  /\ \E m \in MemSamples, c \in CpuSamples :
       services' = [n \in Registered |->
                      IF services[n].pid # NoPid /\ services[n].pid \in Live
                      THEN [services[n] EXCEPT !.memory_usage = m, !.cpu_usage = c]
                      ELSE services[n]]
  /\ th' = [th EXCEPT !["op"] = [Idle EXCEPT !.call = "get_status"]]
  /\ UNCHANGED <<order, orphan, kvm_resources, pvars, ovars, running, it, procs, pidfile,
                 cgroup, hostMem, monStarts>>

\* what start_service(n) finds when it is entered, as far as a claim looks
\* back at it
OnStartEntry(n) ==
  [status |-> services[n].status, restart_count |-> services[n].restart_count]

\* what stop_service(n) finds when it is entered: the record, and the
\* operator's previous call when that was a call on the same name
OnEntry(n) ==
  LET same == th["op"].name = n
  IN [rec |-> services[n],
      call |-> IF same THEN th["op"].call ELSE "none",
      ret |-> IF same THEN th["op"].ret ELSE "none",
      got |-> IF same THEN th["op"].got ELSE <<>>]

\* a start_service that stores a record for a name it does not know
StartCallRegisters(n) ==
  /\ OpCall
  /\ th' = [th EXCEPT !["op"] =
               [Idle EXCEPT !.call = "start", !.name = n, !.ret = "False"]]
  /\ services' = IF n \in Registered THEN services
                 ELSE (n :> NewRecord("wireguard")) @@ services
  /\ order' = IF n \in Registered THEN order ELSE Append(order, n)
  /\ UNCHANGED <<orphan, kvm_resources, pvars, ovars, running, it, procs, pidfile, cgroup,
                 hostMem, monStarts>>

\* start_service(name), lines 135-141, called by the operator
StartCall(n) ==
  /\ OpCall
  /\ IF n \notin Registered
     THEN /\ th' = [th EXCEPT !["op"] =
                      [Idle EXCEPT !.call = "start", !.name = n, !.ret = "False"]]
          /\ UNCHANGED monStarts
     ELSE /\ th' = [th EXCEPT !["op"] =
                      [Idle EXCEPT !.pc = "s_check", !.call = "start", !.name = n,
                                   !.entry = <<OnStartEntry(n)>>]]
          /\ monStarts' = [monStarts EXCEPT ![n] = 0]
  /\ UNCHANGED <<services, order, orphan, kvm_resources, pvars, ovars, running, it, procs,
                 pidfile, cgroup, hostMem>>

\* a start_service that treats error as terminal: it refuses a record whose
\* status is error
S_CheckErrorTerminal(t) ==
  /\ th[t].pc = "s_check"
  /\ \E mem \in MemLevels, cpu \in CpuLevels :
       /\ hostMem' = mem
       /\ IF /\ _check_resources(services[th[t].name].type, cpu)
             /\ Rec(t).status # "error"
          THEN /\ Store(t, [Rec(t) EXCEPT !.status = "starting"], FALSE)
               /\ Goto(t, "s_cgroup")
          ELSE /\ Store(t, [Rec(t) EXCEPT
                               !.last_error = "Insufficient resources"], TRUE)
               /\ Return(t, "False")
  /\ UNCHANGED <<order, kvm_resources, pvars, ovars, running, it, procs, pidfile, cgroup,
                 monStarts, ops, scope>>

\* start_service, lines 143-149: admission, then status = "starting";
\* mem and cpu are what the host has at this moment
S_Check(t) ==
  /\ th[t].pc = "s_check"
  /\ \E mem \in MemLevels, cpu \in CpuLevels :
       /\ hostMem' = mem
       /\ IF _check_resources(services[th[t].name].type, cpu)
          THEN /\ Store(t, [Rec(t) EXCEPT !.status = "starting"], FALSE)
               /\ Goto(t, "s_cgroup")
          ELSE /\ Store(t, [Rec(t) EXCEPT
                               !.last_error = "Insufficient resources"], TRUE)
               /\ Return(t, "False")
  /\ UNCHANGED <<order, kvm_resources, pvars, ovars, running, it, procs, pidfile, cgroup,
                 monStarts, ops, scope>>

\* _create_service_cgroup: makedirs(exist_ok=True) on the cgroup filesystem,
\* taken to succeed (a failure is only logged and leaves no directory)
_create_service_cgroup(n) == [cgroup EXCEPT ![n].exists = TRUE]

\* start_service, lines 151-153
S_Cgroup(t) ==
  /\ th[t].pc = "s_cgroup"
  /\ cgroup' = _create_service_cgroup(th[t].name)
  /\ Goto(t, "s_launch")
  /\ UNCHANGED <<services, order, orphan, kvm_resources, pvars, ovars, running, it, procs,
                 pidfile, hostMem, monStarts, ops, scope>>

\* the launch routines that write a config file before they run the backend
\* (_start_wireguard, _start_openvpn, _start_xray, _start_shadowsocks,
\* _start_tor); open() raises when the directory is missing or read-only
WritesConfig == {"wireguard", "openvpn", "xray", "shadowsocks", "tor"}
RcThenFind == {"wireguard", "openvpn"}
BackgroundFind == {"xray", "tor"}
DpiTypes == {"zapret", "byedpi", "goodbyedpi"}

FreePids == PIDs \ Live

\* the backend process appears in the process table under a free pid
Spawn(p, ty, n) == procs' = [procs EXCEPT ![p] = [kind |-> ProcKind(ty), owner |-> n]]

\* start_service, lines 186-190: any exception of the launch is caught
S_Except(t) ==
  /\ Store(t, [Rec(t) EXCEPT !.status = "error", !.last_error = "exception"], TRUE)
  /\ Return(t, "False")

\* wireguard: subprocess.run(...) of a foreground command; a
\* non-zero return code stores stderr in last_error and returns False
_start_wireguard(t, rc, spawn, p) ==
  IF rc = 0
  THEN /\ IF spawn THEN Spawn(p, Rec(t).type, th[t].name) ELSE procs' = procs
       /\ Goto(t, "s_findpid")
       /\ UNCHANGED <<services, orphan>>
  ELSE /\ Store(t, [Rec(t) EXCEPT !.last_error = "stderr"], FALSE)
       /\ th' = [th EXCEPT ![t].pc = "s_finish", ![t].ok = FALSE, ![t].rc = rc]
       /\ procs' = procs

\* xray: the backend is started in the background ("&"), the return
\* code of the shell says nothing; the pid is looked up after a sleep
_start_xray(t, spawn, p) ==
  /\ IF spawn THEN Spawn(p, Rec(t).type, th[t].name) ELSE procs' = procs
  /\ Goto(t, "s_findpid")
  /\ UNCHANGED <<services, orphan>>

\* shadowsocks: ss-redir daemonizes and writes its pid with -f <pidfile>
_start_shadowsocks(t, rc, spawn, p) ==
  IF rc = 0
  THEN /\ IF spawn
          THEN /\ Spawn(p, Rec(t).type, th[t].name)
               /\ pidfile' = [pidfile EXCEPT ![th[t].name] = p]
          ELSE /\ procs' = procs
               /\ pidfile' = pidfile
       /\ Goto(t, "s_findpid")
  ELSE /\ th' = [th EXCEPT ![t].pc = "s_finish", ![t].ok = FALSE, ![t].rc = rc]
       /\ UNCHANGED <<procs, pidfile>>

\* openvpn: as wireguard, with a sleep before the pid lookup
_start_openvpn(t, rc, spawn, p) == _start_wireguard(t, rc, spawn, p)

\* tor: as xray, with a longer sleep before the pid lookup
_start_tor(t, spawn, p) == _start_xray(t, spawn, p)

\* zapret / byedpi / goodbyedpi: the command is run, the pid is looked up
\* after a sleep whatever the return code, the result is the return code
_start_dpi_bypass(t, rc, spawn, p) ==
  /\ IF spawn THEN Spawn(p, Rec(t).type, th[t].name) ELSE procs' = procs
  /\ th' = [th EXCEPT ![t].pc = "s_findpid", ![t].rc = rc]
  /\ UNCHANGED <<services, orphan>>

\* any other type: /etc/init.d/<type> start when that script exists (pid
\* lookup and result as for the DPI tools), False without running anything
\* when it does not
_start_generic(t, script, rc, spawn, p) ==
  IF script
  THEN _start_dpi_bypass(t, rc, spawn, p)
  ELSE /\ rc = 1 /\ ~spawn
       /\ th' = [th EXCEPT ![t].pc = "s_finish", ![t].ok = FALSE]
       /\ UNCHANGED <<services, orphan, procs>>

\* start_service, lines 155-169: dispatch on the type and run the backend;
\* rc is the return code of the command, spawn says whether a backend
\* process is left running, under pid p
S_Launch(t) ==
  /\ th[t].pc = "s_launch"
  /\ LET ty == Rec(t).type IN
     \/ /\ ty \in WritesConfig
        /\ S_Except(t)
        /\ UNCHANGED <<procs, pidfile>>
     \/ \E rc \in {0, 1}, spawn \in BOOLEAN, p \in PIDs, script \in BOOLEAN :
          /\ IF spawn THEN p \in FreePids ELSE p = 1
          /\ CASE ty = "wireguard" ->
                    /\ script
                    /\ _start_wireguard(t, rc, spawn, p)
                    /\ pidfile' = pidfile
               [] ty = "openvpn" ->
                    /\ script
                    /\ _start_openvpn(t, rc, spawn, p)
                    /\ pidfile' = pidfile
               [] ty = "xray" ->
                    /\ script /\ rc = 0
                    /\ _start_xray(t, spawn, p)
                    /\ pidfile' = pidfile
               [] ty = "tor" ->
                    /\ script /\ rc = 0
                    /\ _start_tor(t, spawn, p)
                    /\ pidfile' = pidfile
               [] ty = "shadowsocks" ->
                    /\ script
                    /\ _start_shadowsocks(t, rc, spawn, p)
                    /\ UNCHANGED <<services, orphan>>
               [] ty \in DpiTypes ->
                    /\ script
                    /\ _start_dpi_bypass(t, rc, spawn, p)
                    /\ pidfile' = pidfile
               [] OTHER ->
                    /\ _start_generic(t, script, rc, spawn, p)
                    /\ pidfile' = pidfile
  /\ UNCHANGED <<order, kvm_resources, pvars, ovars, running, it, cgroup, hostMem,
                 monStarts, ops, scope>>

\* _read_pid_file: the number in the file, None when it cannot be read
_read_pid_file(n, readable) == IF readable THEN pidfile[n] ELSE NoPid

\* the pid lookup that ends each launch routine, and the routine's result
S_FindPid(t) ==
  /\ th[t].pc = "s_findpid"
  /\ LET ty == Rec(t).type IN
     \E readable \in BOOLEAN :
       LET pid == CASE ty = "wireguard" -> _get_wireguard_pid
                    [] ty = "shadowsocks" -> _read_pid_file(th[t].name, readable)
                    [] OTHER -> _find_pid(ProcKind(ty))
           ok == CASE ty \in RcThenFind -> TRUE
                   [] ty = "shadowsocks" -> TRUE
                   [] ty \in BackgroundFind -> pid # NoPid
                   [] OTHER -> th[t].rc = 0
       IN /\ Store(t, [Rec(t) EXCEPT !.pid = pid], FALSE)
          /\ th' = [th EXCEPT ![t].pc = "s_finish", ![t].ok = ok,
                              ![t].got = <<pid>>]
  /\ UNCHANGED <<order, kvm_resources, pvars, ovars, running, it, procs, pidfile, cgroup,
                 hostMem, monStarts, ops, scope>>

\* start_service, line 172 (success) or lines 182-184 (failure)
S_Finish(t) ==
  /\ th[t].pc = "s_finish"
  /\ IF th[t].ok
     THEN /\ Store(t, [Rec(t) EXCEPT !.status = "running"], FALSE)
          /\ Goto(t, "s_fin2")
     ELSE /\ Store(t, [Rec(t) EXCEPT !.status = "error",
                                     !.last_error = "Start failed"], TRUE)
          /\ Return(t, "False")
  /\ UNCHANGED <<order, kvm_resources, pvars, ovars, running, it, procs, pidfile, cgroup,
                 hostMem, monStarts, ops, scope>>

\* start_service, lines 173-174
S_Fin2(t) ==
  /\ th[t].pc = "s_fin2"
  /\ Store(t, [Rec(t) EXCEPT !.start_time = "now", !.restart_count = 0], FALSE)
  /\ Goto(t, "s_limits")
  /\ UNCHANGED <<order, kvm_resources, pvars, ovars, running, it, procs, pidfile, cgroup,
                 hostMem, monStarts, ops, scope>>

\* _apply_resource_limits(name): looks the record up in the registry again;
\* nothing is done without a pid; every write below fails (and is only
\* logged) when the cgroup directory does not exist; attaching a pid that
\* is gone fails after the limits were written
_apply_resource_limits(n) ==
  LET service == services[n]
      attach == service.pid \in Live
  IN IF service.pid = NoPid \/ ~cgroup[n].exists
     THEN cgroup
     ELSE [m \in Names |->
             IF m = n
             THEN [exists |-> TRUE,
                   mem |-> cgroup[n].mem \/ service.type \in MemoryHeavy,
                   cpu |-> cgroup[n].cpu \/ service.type = "tor",
                   procs |-> IF attach THEN cgroup[n].procs \cup {service.pid}
                             ELSE cgroup[n].procs]
             ELSE IF attach
                  THEN [cgroup[m] EXCEPT !.procs = @ \ {service.pid}]
                  ELSE cgroup[m]]

\* start_service, lines 176-180
S_Limits(t) ==
  /\ th[t].pc = "s_limits"
  /\ cgroup' = _apply_resource_limits(th[t].name)
  /\ services' = services
  /\ orphan' = IF t = "mon" THEN <<>> ELSE orphan
  /\ Return(t, "True")
  /\ UNCHANGED <<order, kvm_resources, pvars, ovars, running, it, procs, pidfile, hostMem,
                 monStarts, ops, scope>>

\* a process leaves the process table (and, with it, its cgroup)
Reap(p) ==
  /\ procs' = [procs EXCEPT ![p] = NoProc]
  /\ cgroup' = [n \in Names |-> [cgroup[n] EXCEPT !.procs = @ \ {p}]]

\* stop_service(name), lines 192-200: status = "stopping" without looking at
\* the current status
StopCall(n) ==
  /\ OpCall
  /\ IF n \notin Registered
     THEN /\ th' = [th EXCEPT !["op"] =
                      [Idle EXCEPT !.call = "stop", !.name = n, !.ret = "False"]]
          /\ UNCHANGED <<services, monStarts>>
     ELSE /\ th' = [th EXCEPT !["op"] =
                      [Idle EXCEPT !.pc = "p_term", !.call = "stop", !.name = n,
                                   !.entry = <<OnEntry(n)>>]]
          /\ services' = [services EXCEPT ![n].status = "stopping"]
          /\ monStarts' = [monStarts EXCEPT ![n] = 0]
  /\ UNCHANGED <<order, orphan, kvm_resources, pvars, ovars, running, it, procs, pidfile,
                 cgroup, hostMem>>

\* stop_service, lines 226-230: os.kill on a pid that is gone raises
\* ProcessLookupError, os.kill on None raises TypeError; both are caught here
P_Except(t) ==
  /\ Store(t, [Rec(t) EXCEPT !.status = "error", !.last_error = "exception"], TRUE)
  /\ Return(t, "False")

\* stop_service, lines 204-205: SIGTERM to the recorded pid
P_Term(t) ==
  /\ th[t].pc = "p_term"
  /\ LET pid == Rec(t).pid IN
     IF pid = NoPid
     THEN Goto(t, "p_rmcg") /\ UNCHANGED <<services, orphan>>
     ELSE IF _process_exists(pid)
          THEN Goto(t, "p_poll") /\ UNCHANGED <<services, orphan>>
          ELSE P_Except(t)
  /\ UNCHANGED <<order, kvm_resources, pvars, ovars, running, it, procs, pidfile, cgroup,
                 hostMem, monStarts, ops, scope>>

\* the wait loop with its patience removed: the first round that finds the
\* process alive already moves on to SIGKILL
P_PollImpatient(t) ==
  /\ th[t].pc = "p_poll"
  /\ LET pid == Rec(t).pid IN
     IF pid = NoPid
     THEN P_Except(t)
     ELSE IF ~_process_exists(pid)
          THEN /\ th' = [th EXCEPT ![t].pc = "p_rmcg", ![t].polls = 0]
               /\ UNCHANGED <<services, orphan>>
          ELSE /\ th' = [th EXCEPT ![t].polls = @ + 1, ![t].pc = "p_kill"]
               /\ UNCHANGED <<services, orphan>>
  /\ UNCHANGED <<order, kvm_resources, pvars, ovars, running, it, procs, pidfile, cgroup,
                 hostMem, monStarts, ops, scope>>

\* stop_service, lines 208-211: one round of the wait loop
P_Poll(t) ==
  /\ th[t].pc = "p_poll"
  /\ LET pid == Rec(t).pid IN
     IF pid = NoPid
     THEN P_Except(t)
     ELSE IF ~_process_exists(pid)
          THEN /\ th' = [th EXCEPT ![t].pc = "p_rmcg", ![t].polls = 0]
               /\ UNCHANGED <<services, orphan>>
          ELSE /\ th' = [th EXCEPT ![t].polls = @ + 1,
                                   ![t].pc = IF th[t].polls + 1 = PollLimit
                                             THEN "p_kill" ELSE "p_poll"]
               /\ UNCHANGED <<services, orphan>>
  /\ UNCHANGED <<order, kvm_resources, pvars, ovars, running, it, procs, pidfile, cgroup,
                 hostMem, monStarts, ops, scope>>

\* stop_service, lines 212-214: SIGKILL after PollLimit rounds
P_Kill(t) ==
  /\ th[t].pc = "p_kill"
  /\ LET pid == Rec(t).pid IN
     IF pid # NoPid /\ _process_exists(pid)
     THEN /\ Reap(pid)
          /\ th' = [th EXCEPT ![t].pc = "p_rmcg", ![t].polls = 0]
          /\ UNCHANGED <<services, orphan>>
     ELSE /\ P_Except(t)
          /\ UNCHANGED <<procs, cgroup>>
  /\ UNCHANGED <<order, kvm_resources, pvars, ovars, running, it, pidfile, hostMem, monStarts, ops, scope>>

\* _remove_service_cgroup: rmdir fails (and is only logged) while a process
\* is still attached to the cgroup
_remove_service_cgroup(n) ==
  IF cgroup[n].exists /\ cgroup[n].procs = {}
  THEN [cgroup EXCEPT ![n] = NoCgroup]
  ELSE cgroup

\* stop_service, lines 216-217
P_Rmcg(t) ==
  /\ th[t].pc = "p_rmcg"
  /\ cgroup' = _remove_service_cgroup(th[t].name)
  /\ Goto(t, "p_done")
  /\ UNCHANGED <<services, order, orphan, kvm_resources, pvars, ovars, running, it, procs,
                 pidfile, hostMem, monStarts, ops, scope>>

\* stop_service, lines 219-224
P_Done(t) ==
  /\ th[t].pc = "p_done"
  /\ Store(t, [Rec(t) EXCEPT !.status = "stopped", !.pid = NoPid,
                             !.start_time = "None"], TRUE)
  /\ Return(t, "True")
  /\ UNCHANGED <<order, kvm_resources, pvars, ovars, running, it, procs, pidfile, cgroup,
                 hostMem, monStarts, ops, scope>>

\* ---------------------------------------------------- the monitor thread
MonFrame(pc) == [Idle EXCEPT !.pc = pc]

\* an exception nothing catches ends the monitor thread
M_Crash ==
  /\ th' = [th EXCEPT !["mon"] = MonFrame("crashed")]
  /\ orphan' = <<>>

\* _monitor_loop, lines 556-557 (and the sleep of line 571 before it):
\* a new iterator over self.services.items()
M_Loop ==
  /\ th["mon"].pc = "m_loop"
  /\ running
  /\ it' = [idx |-> 0, size |-> Len(order)]
  /\ Goto("mon", "m_next")
  /\ UNCHANGED <<services, order, orphan, kvm_resources, pvars, ovars, running, procs,
                 pidfile, cgroup, hostMem, monStarts, ops, scope>>

\* _monitor_loop, lines 557-558: the iterator's next() (RuntimeError when
\* the dict changed size during the iteration; the sleep of line 571 when it
\* is exhausted) and the test of the item it yields
M_Next ==
  /\ th["mon"].pc = "m_next"
  /\ IF Len(order) # it.size
     THEN M_Crash /\ it' = it
     ELSE IF it.idx >= it.size
          THEN /\ th' = [th EXCEPT !["mon"] = MonFrame("m_loop")]
               /\ it' = [idx |-> 0, size |-> 0]
               /\ orphan' = orphan
          ELSE LET service == services[order[it.idx + 1]] IN
               /\ it' = [it EXCEPT !.idx = @ + 1]
               /\ orphan' = orphan
               /\ IF service.status = "running" /\ service.pid # NoPid
                  THEN th' = [th EXCEPT !["mon"] =
                         [MonFrame("m_probe") EXCEPT !.name = order[it.idx + 1]]]
                  ELSE th' = th
  /\ UNCHANGED <<services, order, kvm_resources, pvars, ovars, running, procs, pidfile,
                 cgroup, hostMem, monStarts, ops, scope>>

\* _monitor_loop, lines 559-561: the liveness probe and the read of
\* restart_count; os.kill(None, 0) raises TypeError, which nothing catches
M_Probe ==
  /\ th["mon"].pc = "m_probe"
  /\ LET pid == Rec("mon").pid IN
     IF pid = NoPid
     THEN M_Crash
     ELSE IF _process_exists(pid)
          THEN th' = [th EXCEPT !["mon"] = MonFrame("m_next")] /\ orphan' = <<>>
          ELSE /\ th' = [th EXCEPT !["mon"].pc = "m_inc",
                                   !["mon"].cnt = Rec("mon").restart_count]
               /\ orphan' = orphan
  /\ UNCHANGED <<services, order, kvm_resources, pvars, ovars, running, it, procs, pidfile,
                 cgroup, hostMem, monStarts, ops, scope>>

\* _monitor_loop, line 561: the store of restart_count + 1
M_Inc ==
  /\ th["mon"].pc = "m_inc"
  /\ Store("mon", [Rec("mon") EXCEPT !.restart_count = th["mon"].cnt + 1], FALSE)
  /\ th' = [th EXCEPT !["mon"].pc = "m_decide", !["mon"].cnt = 0]
  /\ UNCHANGED <<order, kvm_resources, pvars, ovars, running, it, procs, pidfile, cgroup,
                 hostMem, monStarts, ops, scope>>

\* _monitor_loop, lines 564-569: restart through start_service(name), or
\* give up with status = "error"
M_Decide ==
  /\ th["mon"].pc = "m_decide"
  /\ IF Rec("mon").restart_count < MaxRestarts
     THEN /\ th' = [th EXCEPT !["mon"] =
                      [MonFrame("s_check") EXCEPT !.name = th["mon"].name,
                                                  !.call = "start"]]
          /\ orphan' = <<>>
          /\ services' = services
          /\ monStarts' = [monStarts EXCEPT ![th["mon"].name] =
                             IF @ < MaxMonStarts /\ ~OpBusyWith(th["mon"].name)
                             THEN @ + 1 ELSE @]
     ELSE /\ Store("mon", [Rec("mon") EXCEPT !.status = "error",
                              !.last_error = "Max restarts exceeded"], TRUE)
          /\ th' = [th EXCEPT !["mon"] = MonFrame("m_next")]
          /\ monStarts' = monStarts
  /\ UNCHANGED <<order, kvm_resources, pvars, ovars, running, it, procs, pidfile, cgroup,
                 hostMem, ops, scope>>

\* ------------------------------------------------------ the environment
\* a backend process exits on its own
ProcExit(p) ==
  /\ p \in Live
  /\ Reap(p)
  /\ UNCHANGED <<services, order, orphan, kvm_resources, pvars, ovars, running, th, it,
                 pidfile, hostMem, monStarts, ops, scope>>

\* ---------------------------------------------------------------- Next
Next ==
  \/ \E n \in Names, ty \in Types : register_service(n, ty)
  \/ start_monitoring
  \/ get_status
  \/ \E n \in Names : StartCall(n)
  \/ \E n \in Names : StopCall(n)
  \/ \E t \in Threads : S_Check(t)
  \/ \E t \in Threads : S_Cgroup(t)
  \/ \E t \in Threads : S_Launch(t)
  \/ \E t \in Threads : S_FindPid(t)
  \/ \E t \in Threads : S_Finish(t)
  \/ \E t \in Threads : S_Fin2(t)
  \/ \E t \in Threads : S_Limits(t)
  \/ P_Term("op")
  \/ P_Poll("op")
  \/ P_Kill("op")
  \/ P_Rmcg("op")
  \/ P_Done("op")
  \/ M_Loop
  \/ M_Next
  \/ M_Probe
  \/ M_Inc
  \/ M_Decide
  \/ \E p \in PIDs : ProcExit(p)

Spec == Init /\ [][Next]_vars

\* the operator alone: start_monitoring is never called, so no monitor
\* thread runs, and the operator has one more call
InitAlone == InitIn({"n1"} \X Types, MaxOpsAlone)

NextAlone ==
  \/ \E n \in Names, ty \in Types : register_service(n, ty)
  \/ get_status
  \/ \E n \in Names : StartCall(n)
  \/ \E n \in Names : StopCall(n)
  \/ S_Check("op")
  \/ S_Cgroup("op")
  \/ S_Launch("op")
  \/ S_FindPid("op")
  \/ S_Finish("op")
  \/ S_Fin2("op")
  \/ S_Limits("op")
  \/ P_Term("op")
  \/ P_Poll("op")
  \/ P_Kill("op")
  \/ P_Rmcg("op")
  \/ P_Done("op")
  \/ \E p \in PIDs : ProcExit(p)

SpecAlone == InitAlone /\ [][NextAlone]_vars

\* the supervised service: the operator registers, starts and turns the
\* monitor on, and then leaves the service to the monitor; a call runs to
\* its end, the monitor thread keeps running and every backend process
\* exits in the end
InitSupervised == InitIn({"n1"} \X Types, MaxOpsSupervised)

MonitorStep ==
  \/ M_Loop
  \/ M_Next
  \/ M_Probe
  \/ M_Inc
  \/ M_Decide
  \/ S_Check("mon")
  \/ S_Cgroup("mon")
  \/ S_Launch("mon")
  \/ S_FindPid("mon")
  \/ S_Finish("mon")
  \/ S_Fin2("mon")
  \/ S_Limits("mon")

\* a step of the operator's thread inside start_service
OperatorStartStep ==
  \/ S_Check("op")
  \/ S_Cgroup("op")
  \/ S_Launch("op")
  \/ S_FindPid("op")
  \/ S_Finish("op")
  \/ S_Fin2("op")
  \/ S_Limits("op")

NextSupervised ==
  \/ \E n \in Names, ty \in Types : register_service(n, ty)
  \/ start_monitoring
  \/ \E n \in Names : StartCall(n)
  \/ OperatorStartStep
  \/ MonitorStep
  \/ \E p \in PIDs : ProcExit(p)

SpecSupervised ==
  /\ InitSupervised
  /\ [][NextSupervised]_vars
  /\ WF_vars(OperatorStartStep)
  /\ WF_vars(MonitorStep)
  /\ WF_vars(\E p \in PIDs : ProcExit(p))

\* ------------------------------------------------- vocabulary of the claims
StartPcs == {"s_check", "s_cgroup", "s_launch", "s_findpid", "s_finish",
             "s_fin2", "s_limits"}
StopPcs == {"p_term", "p_poll", "p_kill", "p_rmcg", "p_done"}

\* thread t is inside start_service(n) / stop_service(n)
InStart(t, n) == th[t].pc \in StartPcs /\ th[t].name = n
InStop(t, n) == th[t].pc \in StopPcs /\ th[t].name = n

\* the operator is between the first write (status = "starting" or
\* "stopping") and the last write of its call on the registry record of n
OpMidUpdate(n) ==
  /\ th["op"].name = n
  /\ th["op"].pc \in (StartPcs \ {"s_check", "s_limits"}) \cup StopPcs

\* the monitor is between its first write (restart_count + 1) and the last
\* write of its update of the registry record of n
MonMidUpdate(n) ==
  /\ th["mon"].name = n
  /\ th["mon"].ref = "registry"
  /\ th["mon"].pc \in {"m_decide"} \cup (StartPcs \ {"s_limits"})

\* no call and no monitor update is in flight on n
Quiescent(n) == ~OpBusyWith(n) /\ th["mon"].name # n

\* this step is the return of the operator's start_service / stop_service
OpStartReturns == th["op"].pc \in StartPcs /\ th'["op"].pc = "idle"
OpStopReturns == th["op"].pc \in StopPcs /\ th'["op"].pc = "idle"

\* this step is the admission check of the operator's start_service(n)
\* and it denies the start
OpDenied == th["op"].pc = "s_check" /\ th'["op"].pc = "idle"

\* this step is one of the monitor inside the start_service it called
MonStartStep ==
  /\ th["mon"].pc \in StartPcs
  /\ th'["mon"].pc # th["mon"].pc

\* the diagnostics a failed launch leaves in last_error
LaunchDiagnostics == {"Start failed", "stderr", "exception"}

\* this step is a register_service call (it stores a fresh record)
RegisterStep == ops' # ops /\ th'["op"].call = "register"

\* the status changes of the state machine of the specification
AllowedChanges ==
  {<<"stopped", "starting">>, <<"starting", "running">>,
   <<"running", "stopping">>, <<"stopping", "stopped">>,
   <<"starting", "error">>, <<"running", "error">>, <<"error", "starting">>}

\* ------------------------------------------------------------- the claims

\* C1: with no operator start or stop issued for a service, the monitor
\* calls start_service for it at most 3 times (then the record goes to
\* error and the monitor leaves it alone).
C1_MonitorRestartsAtMostThree == \A n \in Names : monStarts[n] <= MaxRestarts

\* C2: a start_service call made by the monitor never sets restart_count
\* back to 0: with no operator call in flight on the record, no step of the
\* monitor inside that call changes the restart_count the monitor had
\* incremented.
C2_MonitorStartKeepsRestartCount ==
  [][MonStartStep /\ th["op"].pc = "idle" =>
       \A n \in Registered :
         services'[n].restart_count = services[n].restart_count]_vars

\* C3: while an operator start_service(n) and a monitor-triggered
\* start_service(n) run concurrently, at most one live backend process
\* exists for n.
C3_ConcurrentStartsOneProcess ==
  \A n \in Names :
    InStart("op", n) /\ InStart("mon", n) => Cardinality(LiveOf(n)) <= 1

\* C4: the operator thread and the monitor thread are never both between
\* the first and the last write of an update of the same service record.
C4_UpdatesSerializedPerName ==
  \A n \in Names : ~(OpMidUpdate(n) /\ MonMidUpdate(n))

\* C5: when the operator's start is denied by admission control, no backend
\* is launched, no pid is recorded, the record's status is error and
\* last_error is an insufficient-resources diagnostic that no launch
\* failure produces.
C5_DeniedStartEndsInError ==
  [][OpDenied =>
       LET n == th["op"].name IN
       /\ procs' = procs
       /\ services'[n].pid = services[n].pid
       /\ services'[n].status = "error"
       /\ services'[n].last_error = "Insufficient resources"
       /\ services'[n].last_error \notin LaunchDiagnostics]_vars

\* C6: start is denied exactly when the type is memory-heavy and the host's
\* available memory at the moment of the call is below 512 MB.
C6_AdmissionOnFreshSnapshot ==
  [][th["op"].pc = "s_check" /\ th'["op"].pc # "s_check" =>
       (OpDenied <=>
          /\ services[th["op"].name].type \in MemoryHeavy
          /\ hostMem' < MemFloorMB)]_vars

\* C7: every change of the status of a service record, under any sequence
\* of register, start, stop and monitor passes, is one of the seven changes
\* of the state machine (the store of a fresh record by register aside).
C7_OnlyStateMachineChanges ==
  [][RegisterStep \/
     \A n \in Registered :
       \/ services'[n].status = services[n].status
       \/ <<services[n].status, services'[n].status>> \in AllowedChanges]_vars

\* C8: a record whose status is running has a recorded pid.
C8_RunningHasPid ==
  \A n \in Registered : services[n].status = "running" => services[n].pid # NoPid

\* C9: whenever no call is in flight on a record, its start_time is set if
\* and only if its status is running.
C9_StartTimeIffRunning ==
  \A n \in Registered :
    Quiescent(n) =>
      (services[n].start_time # "None" <=> services[n].status = "running")

\* C10: when stop(name) returns, the record's status is stopped and its pid
\* and start_time are cleared.
C10_StopLeavesStopped ==
  [][OpStopReturns =>
       LET n == th["op"].name IN
       /\ services'[n].status = "stopped"
       /\ services'[n].pid = NoPid
       /\ services'[n].start_time = "None"]_vars

\* C11: stop is idempotent: when stop(name) returns and the operator's
\* previous call was stop(name) too, both calls returned success and the
\* status is stopped; a stop that found the record stopped returns success
\* and leaves pid, start_time, restart_count and last_error as it found them.
C11_StopIdempotent ==
  [][OpStopReturns =>
       LET n == th["op"].name
           e == th["op"].entry[1]
       IN /\ e.call = "stop" =>
               /\ e.ret = "True"
               /\ th'["op"].ret = "True"
               /\ services'[n].status = "stopped"
          /\ e.rec.status = "stopped" =>
               /\ th'["op"].ret = "True"
               /\ services'[n].pid = e.rec.pid
               /\ services'[n].start_time = e.rec.start_time
               /\ services'[n].restart_count = e.rec.restart_count
               /\ services'[n].last_error = e.rec.last_error]_vars

\* this step is a start_service or stop_service call with a name that is
\* not registered
OpCallsUnknown ==
  /\ ops' # ops
  /\ th'["op"].call \in {"start", "stop"}
  /\ th'["op"].name \notin Registered

\* C12: start(name) and stop(name) with a name that is not registered
\* return failure and change nothing: the call is over in that step, no
\* record is created or modified, no process is launched or signalled, no
\* cgroup or pid file is touched.
C12_UnknownNameRejected ==
  [][OpCallsUnknown =>
       /\ th'["op"].pc = "idle"
       /\ th'["op"].ret = "False"
       /\ services' = services
       /\ order' = order
       /\ orphan' = orphan
       /\ procs' = procs
       /\ cgroup' = cgroup
       /\ pidfile' = pidfile]_vars

\* C12, witness: a start or stop of the unregistered name n2 has returned
\* failure while n1 is registered and its backend is alive
C12_Witness ==
  /\ th["op"].pc = "idle"
  /\ th["op"].call \in {"start", "stop"}
  /\ th["op"].name = "n2"
  /\ th["op"].ret = "False"
  /\ "n2" \notin Registered
  /\ "n1" \in Registered
  /\ LiveOf("n1") # {}

\* this step is the operator's start_service returning after a launch whose
\* command exited non-zero
OpLaunchFailed ==
  /\ th["op"].pc = "s_finish"
  /\ th["op"].rc # 0
  /\ th'["op"].pc = "idle"

\* C13: when the backend launch fails with a non-zero exit, the record ends
\* in status error and last_error holds the backend's raw stderr once start
\* has returned.
C13_LaunchFailureKeepsStderr ==
  [][OpLaunchFailed =>
       LET n == th["op"].name IN
       /\ services'[n].status = "error"
       /\ services'[n].last_error = "stderr"]_vars

\* this step is the monitor calling start_service
MonRestarts == th["mon"].pc = "m_decide" /\ th'["mon"].pc = "s_check"

\* C14: under fair scheduling of the monitor, and with the operator doing
\* nothing more, a service whose backend keeps dying is not restarted
\* forever: from some point on the monitor makes no start_service call (the
\* record has reached error and stays there).
C14_RestartsEnd == <>[][~MonRestarts]_vars

\* C15: after an operator-initiated start(name) on a registered service
\* returns, the record's restart_count is 0 (or it is a count the monitor
\* has written since the call was entered: it is not the count the call
\* found, unless that was 0).
C15_OperatorStartResetsCount ==
  [][OpStartReturns =>
       LET n == th["op"].name IN
       \/ services'[n].restart_count = 0
       \/ services'[n].restart_count # th["op"].entry[1].restart_count]_vars

\* this step is stop_service(n) reading the pid it signals, the stop having
\* been issued right after a start_service(n) that returned success with a
\* pid, and at a time the record held that pid
StopReadsPidAfterStart ==
  /\ th["op"].pc = "p_term"
  /\ th'["op"].pc # "p_term"
  /\ LET e == th["op"].entry[1] IN
     /\ e.call = "start"
     /\ e.ret = "True"
     /\ e.got # <<NoPid>>
     /\ e.got = <<e.rec.pid>>

\* C16: a stop(name) issued after a start(name) has returned success signals
\* the pid recorded by that start, in every interleaving with the monitor:
\* the pid it reads is not a different one, and not a stale one (no backend
\* of the service is alive under another pid).
C16_StopSignalsStartedPid ==
  [][StopReadsPidAfterStart =>
       LET n == th["op"].name
           pid == services[n].pid
       IN /\ <<pid>> = th["op"].entry[1].got
          /\ LiveOf(n) \subseteq {pid}]_vars

\* C17: the cgroup created by start is destroyed by stop: after a
\* stop(name) that returns success, no cgroup exists for that service.
C17_StopDestroysCgroup ==
  [][OpStopReturns /\ th'["op"].ret = "True" =>
       ~cgroup'[th["op"].name].exists]_vars

\* the protocol types a quota is meant for
QuotaTypes == MemoryHeavy \cup {"tor"}

\* C18: after a successful start, a quota is attached to the backend pid
\* only when the type is memory-heavy or CPU-bound: when the operator's
\* start_service returns success for any other type, the recorded pid is in
\* no cgroup that carries a memory or CPU limit.
C18_QuotaOnlyForHeavyTypes ==
  [][OpStartReturns /\ th'["op"].ret = "True" =>
       LET n == th["op"].name IN
       services'[n].type \notin QuotaTypes =>
         \A m \in Names :
           services'[n].pid \in cgroup'[m].procs =>
             ~cgroup'[m].mem /\ ~cgroup'[m].cpu]_vars

\* this step is a get_status call
StatusStep == ops' # ops /\ th'["op"].call = "get_status"

\* C19: status() never mutates: every field of every service record and the
\* set of registered names are the same after the call as before it.
C19_StatusReadsOnly ==
  [][StatusStep => services' = services /\ order' = order]_vars

\* the operator is inside a start_service call that found its record in
\* status error
OpStartsFromError ==
  /\ th["op"].pc \in StartPcs
  /\ th["op"].entry[1].status = "error"

\* the admission check of start_service(n) lets the start through
Admitted(n) == \A cpu \in CpuLevels : _check_resources(services[n].type, cpu)

\* C20: error is not terminal: an operator start(name) that finds the record
\* in status error and passes admission moves it to starting, and then to
\* running when the launch succeeded and to error when it failed or raised.
C20_StartFromError ==
  [][OpStartsFromError =>
       LET n == th["op"].name IN
       /\ th["op"].pc = "s_check" /\ th'["op"].pc # "s_check" /\ Admitted(n) =>
            /\ th'["op"].pc = "s_cgroup"
            /\ services'[n].status = "starting"
       /\ th["op"].pc = "s_finish" /\ th'["op"].pc # "s_finish" =>
            services'[n].status = IF th["op"].ok THEN "running" ELSE "error"
       /\ th["op"].pc = "s_launch" /\ th'["op"].pc = "idle" =>
            services'[n].status = "error"
       /\ OpStartReturns /\ th["op"].pc # "s_check" =>
            th'["op"].ret = IF th["op"].pc = "s_limits" THEN "True" ELSE "False"]_vars

\* C20, witness: an operator start that found the record in status error
\* has launched its backend and set the status to running
C20_Witness ==
  /\ th["op"].pc = "s_limits"
  /\ th["op"].entry[1].status = "error"
  /\ services[th["op"].name].status = "running"
  /\ LiveOf(th["op"].name) # {}

\* a step of the operator's stop_service that takes a live process away
\* (the SIGKILL of line 214; the model's SIGTERM leaves the exit to ProcExit)
OpStopKills ==
  /\ th["op"].call = "stop"
  /\ th'["op"] # th["op"]
  /\ Live' # Live

\* a round of the operator's wait loop that finds the recorded process gone
OpPollSeesExit ==
  /\ th["op"].pc = "p_poll"
  /\ th'["op"] # th["op"]
  /\ Rec("op").pid # NoPid
  /\ ~_process_exists(Rec("op").pid)

\* C21: stop sends SIGTERM first, then polls for the exit at most PollLimit
\* (10) times; SIGKILL is sent only after every one of the 10 polls found the
\* process alive, and a poll that saw the process gone is never followed by
\* SIGKILL.
C21_TermPollKill ==
  [][/\ th'["op"].pc = "p_poll" => th["op"].pc \in {"p_term", "p_poll"}
     /\ th'["op"].pc = "p_poll" /\ th["op"].pc = "p_term" => th'["op"].polls = 0
     /\ th'["op"].polls <= PollLimit
     /\ th'["op"].pc = "p_kill" =>
          /\ th["op"].pc \in {"p_poll", "p_kill"}
          /\ th'["op"].polls = PollLimit
     /\ th["op"].pc = "p_poll" /\ th'["op"].pc = "p_kill" =>
          /\ th["op"].polls = PollLimit - 1
          /\ _process_exists(Rec("op").pid)
     /\ OpPollSeesExit => th'["op"].pc = "p_rmcg" /\ Live' = Live
     /\ OpStopKills => th["op"].pc = "p_kill" /\ th["op"].polls = PollLimit]_vars

\* C21, witness: the operator's stop has sent SIGTERM, found the process
\* alive in all 10 polls and is about to send SIGKILL to it
C21_Witness ==
  /\ th["op"].call = "stop"
  /\ th["op"].pc = "p_kill"
  /\ th["op"].polls = PollLimit
  /\ services[th["op"].name].pid \in LiveOf(th["op"].name)

\* ================================================================ parser
\* Model of the configuration parser (sentinel-parser-kvm.py, class
\* KVMProtocolParser).  A text is the sequence of its lines (data.split('\n')),
\* a line is its own characters; the string operations the parser applies to
\* a line (startswith, in, split, strip, lower, int, b64decode, json.loads)
\* are given as tables over the lines and tokens of the vocabulary below.
\* No line of the vocabulary has blanks at its ends, so line.strip() leaves
\* every line as it is, and none starts with '#'.

\* ------------------------------------------------------------------ bounds
MaxLines == 5
MaxCalls == 2

\* self.kvm_resources as __init__ sets it when the caller passes none
parser_resources ==
  [cpu_count |-> 4, memory_mb |-> 2048, virtio_net |-> TRUE, virtio_queues |-> 4]

supported_protocols ==
  {"wireguard", "amneziawg", "openvpn", "xray", "shadowsocks", "trojan",
   "sing-box", "hysteria2", "tor", "zapret", "byedpi", "goodbyedpi"}

\* ------------------------------------------------------- input vocabulary
WgLines == {"[Interface]", "[Peer]", "PublicKey = p", "S1 = 120", "Jc = 4"}

OvpnLines == {"remote h 1194", "<ca>", "</ca>", "MIIF", ""}

\* one URL per scheme whose fragment holds every marker the structural
\* heuristics search for
MarkedUrls ==
  {"ss://x#[Interface] [Peer] Jc client dev tun SOCKSPort",
   "trojan://x#[Interface] [Peer] Jc client dev tun SOCKSPort",
   "vless://x#[Interface] [Peer] Jc client dev tun SOCKSPort",
   "vmess://x#[Interface] [Peer] Jc client dev tun SOCKSPort",
   "wg://x#[Interface] [Peer] Jc client dev tun SOCKSPort",
   "wireguard://x#[Interface] [Peer] Jc client dev tun SOCKSPort",
   "amnezia://x#[Interface] [Peer] Jc client dev tun SOCKSPort",
   "hysteria://x#[Interface] [Peer] Jc client dev tun SOCKSPort",
   "hy2://x#[Interface] [Peer] Jc client dev tun SOCKSPort"}

\* vmess bodies: base64 of {"add":"h","port":"443"}, of {"add":"h","port":"x"},
\* a string that is no base64, and base64 of hello
UrlLines ==
  {"ss://bTpwdw==@h:8388", "ss://m:pw@h:x", "ss://bTpwdw==",
   "trojan://pw@h:443", "trojan://pw@",
   "vless://u@h:443", "vless://u@h:x", "vless://u@",
   "vmess://eyJhZGQiOiJoIiwicG9ydCI6IjQ0MyJ9",
   "vmess://eyJhZGQiOiJoIiwicG9ydCI6IngifQ",
   "vmess://abcde", "vmess://aGVsbG8",
   "wg://k@e",
   "hysteria://h:443?auth=a", "hy2://h:x?auth=a", "hy2://h:443"}
  \cup MarkedUrls

JsonLines == {"{\"outbounds\":[]}", "{\"inbounds\":[]}", "{"}

OtherLines ==
  {"hello", "10.0.0.1 port=8080", "SOCKSPort 9050", "remote h x",
   "--dpi-desync fake"} \cup JsonLines

\* the WireGuard and OpenVPN inputs of test_parser, shortened
SampleTexts ==
  {<<"", "[Interface]", "PrivateKey = k", "", "[Peer]", "PublicKey = p", "">>,
   <<"", "client", "dev tun", "remote h 1194", "<ca>", "MIIF", "</ca>", "">>}

SeqUpTo(S, n) == UNION {[1..k -> S] : k \in 1..n}

\* the protocol name a caller passes for a line when it does not pass auto
HintOf(l) ==
  CASE l \in {"ss://bTpwdw==@h:8388", "ss://m:pw@h:x", "ss://bTpwdw==",
              "ss://x#[Interface] [Peer] Jc client dev tun SOCKSPort"}
         -> "shadowsocks"
    [] l \in {"trojan://pw@h:443", "trojan://pw@",
              "trojan://x#[Interface] [Peer] Jc client dev tun SOCKSPort"}
         -> "trojan"
    [] l \in {"wg://k@e",
              "wg://x#[Interface] [Peer] Jc client dev tun SOCKSPort",
              "wireguard://x#[Interface] [Peer] Jc client dev tun SOCKSPort"}
         -> "wireguard"
    [] l = "amnezia://x#[Interface] [Peer] Jc client dev tun SOCKSPort"
         -> "amneziawg"
    [] l \in {"hysteria://h:443?auth=a", "hy2://h:x?auth=a", "hy2://h:443",
              "hysteria://x#[Interface] [Peer] Jc client dev tun SOCKSPort",
              "hy2://x#[Interface] [Peer] Jc client dev tun SOCKSPort"}
         -> "hysteria2"
    [] l \in UrlLines -> "xray"
    [] l = "{\"outbounds\":[]}" -> "sing-box"
    [] l = "{\"inbounds\":[]}" -> "xray"
    [] l = "{" -> "trojan"
    [] l = "SOCKSPort 9050" -> "tor"
    [] l = "remote h x" -> "openvpn"
    [] l = "--dpi-desync fake" -> "zapret"
    [] OTHER -> "vmess"

\* the calls parse(protocol, data) a run draws its request from
Requests ==
  {[protocol |-> h, data |-> d] :
     h \in {"auto", "wireguard", "amneziawg"}, d \in SeqUpTo(WgLines, MaxLines)}
  \cup {[protocol |-> "openvpn", data |-> d] : d \in SeqUpTo(OvpnLines, MaxLines)}
  \cup {[protocol |-> h, data |-> d] :
          h \in {"auto", "wireguard", "openvpn"}, d \in SampleTexts}
  \cup UNION {{[protocol |-> h, data |-> <<l>>] : h \in {"auto", "", HintOf(l)}} :
                l \in UrlLines \cup OtherLines}

\* ------------------------------------------------- Python string operations
\* the searched substrings that occur in a line; client, dev tun and torrc
\* are searched in the lower-cased text, the others in the text as it is
Found(l) ==
  CASE l = "[Interface]" -> {"[Interface]"}
    [] l = "[Peer]" -> {"[Peer]"}
    [] l = "Jc = 4" -> {"Jc"}
    [] l = "client" -> {"client"}
    [] l = "dev tun" -> {"dev tun"}
    [] l = "SOCKSPort 9050" -> {"SOCKSPort"}
    [] l \in MarkedUrls ->
         {"[Interface]", "[Peer]", "Jc", "client", "dev tun", "SOCKSPort"}
    [] OTHER -> {}

\* sub in data
In(sub, data) == \E i \in DOMAIN data : sub \in Found(data[i])

\* what the regular expressions of _parse_generic find in a line
Matches(l) ==
  CASE l = "10.0.0.1 port=8080" -> {"ip", "port"}
    [] l = "vmess://eyJhZGQiOiJoIiwicG9ydCI6IjQ0MyJ9" -> {"base64"}
    [] OTHER -> {}

RECURSIVE LStrip(_)
LStrip(data) ==
  IF data # <<>> /\ Head(data) = "" THEN LStrip(Tail(data)) ELSE data

RECURSIVE RStrip(_)
RStrip(data) ==
  IF data # <<>> /\ data[Len(data)] = ""
  THEN RStrip(SubSeq(data, 1, Len(data) - 1)) ELSE data

\* data.strip(): blank lines at both ends go
Strip(data) == RStrip(LStrip(data))

\* the prefix of a line that startswith is asked about
Prefix(l) ==
  CASE l \in {"ss://bTpwdw==@h:8388", "ss://m:pw@h:x", "ss://bTpwdw==",
              "ss://x#[Interface] [Peer] Jc client dev tun SOCKSPort"}
         -> "ss://"
    [] l \in {"trojan://pw@h:443", "trojan://pw@",
              "trojan://x#[Interface] [Peer] Jc client dev tun SOCKSPort"}
         -> "trojan://"
    [] l \in {"vless://u@h:443", "vless://u@h:x", "vless://u@",
              "vless://x#[Interface] [Peer] Jc client dev tun SOCKSPort"}
         -> "vless://"
    [] l \in {"vmess://eyJhZGQiOiJoIiwicG9ydCI6IjQ0MyJ9",
              "vmess://eyJhZGQiOiJoIiwicG9ydCI6IngifQ",
              "vmess://abcde", "vmess://aGVsbG8",
              "vmess://x#[Interface] [Peer] Jc client dev tun SOCKSPort"}
         -> "vmess://"
    [] l \in {"wg://k@e",
              "wg://x#[Interface] [Peer] Jc client dev tun SOCKSPort"}
         -> "wg://"
    [] l = "wireguard://x#[Interface] [Peer] Jc client dev tun SOCKSPort"
         -> "wireguard://"
    [] l = "amnezia://x#[Interface] [Peer] Jc client dev tun SOCKSPort"
         -> "amnezia://"
    [] l \in {"hysteria://h:443?auth=a",
              "hysteria://x#[Interface] [Peer] Jc client dev tun SOCKSPort"}
         -> "hysteria://"
    [] l \in {"hy2://h:x?auth=a", "hy2://h:443",
              "hy2://x#[Interface] [Peer] Jc client dev tun SOCKSPort"}
         -> "hy2://"
    [] l \in JsonLines -> "{"
    [] l \in {"[Interface]", "[Peer]"} -> "["
    [] l = "</ca>" -> "</"
    [] l = "<ca>" -> "<"
    [] l = "--dpi-desync fake" -> "--"
    [] OTHER -> ""

\* data.startswith(p), on the text as it was passed
StartsWith(data, p) == data # <<>> /\ Prefix(data[1]) = p

\* line.startswith('[') and line.endswith(']')
Bracketed(l) == l \in {"[Interface]", "[Peer]"}

\* line.startswith('<') and line.endswith('>'): a closing tag starts with
\* '<' as well
Angled(l) == l \in {"<ca>", "</ca>"}

\* line.startswith('</') and line.endswith('>')
Closing(l) == l = "</ca>"

\* line[1:-1]
Inner(l) ==
  CASE l = "[Interface]" -> "Interface"
    [] l = "[Peer]" -> "Peer"
    [] l = "<ca>" -> "ca"
    [] l = "</ca>" -> "/ca"
    [] OTHER -> l

\* line.split('=', 1) with both parts stripped; <<>> when the line has no '='
EqSplit(l) ==
  CASE l = "PublicKey = p" -> <<"PublicKey", "p">>
    [] l = "PrivateKey = k" -> <<"PrivateKey", "k">>
    [] l = "S1 = 120" -> <<"S1", "120">>
    [] l = "Jc = 4" -> <<"Jc", "4">>
    [] l = "ss://bTpwdw==@h:8388" -> <<"ss://bTpwdw", "=@h:8388">>
    [] l = "ss://bTpwdw==" -> <<"ss://bTpwdw", "=">>
    [] l = "hysteria://h:443?auth=a" -> <<"hysteria://h:443?auth", "a">>
    [] l = "hy2://h:x?auth=a" -> <<"hy2://h:x?auth", "a">>
    [] l = "10.0.0.1 port=8080" -> <<"10.0.0.1 port", "8080">>
    [] OTHER -> <<>>

\* line.split(); the lines with blanks that reach a decoder splitting at
\* blanks are listed, any other line counts as one word
Words(l) ==
  CASE l = "" -> <<>>
    [] l = "remote h 1194" -> <<"remote", "h", "1194">>
    [] l = "remote h x" -> <<"remote", "h", "x">>
    [] l = "dev tun" -> <<"dev", "tun">>
    [] l = "PublicKey = p" -> <<"PublicKey", "=", "p">>
    [] l = "PrivateKey = k" -> <<"PrivateKey", "=", "k">>
    [] l = "S1 = 120" -> <<"S1", "=", "120">>
    [] l = "Jc = 4" -> <<"Jc", "=", "4">>
    [] l = "SOCKSPort 9050" -> <<"SOCKSPort", "9050">>
    [] l = "10.0.0.1 port=8080" -> <<"10.0.0.1", "port=8080">>
    [] l = "--dpi-desync fake" -> <<"--dpi-desync", "fake">>
    [] OTHER -> <<l>>

\* line.split(' ', 1) with the second part stripped; <<>> without a blank
SpaceSplit(l) ==
  CASE l = "remote h 1194" -> <<"remote", "h 1194">>
    [] l = "remote h x" -> <<"remote", "h x">>
    [] l = "dev tun" -> <<"dev", "tun">>
    [] l = "PublicKey = p" -> <<"PublicKey", "= p">>
    [] l = "PrivateKey = k" -> <<"PrivateKey", "= k">>
    [] l = "S1 = 120" -> <<"S1", "= 120">>
    [] l = "Jc = 4" -> <<"Jc", "= 4">>
    [] l = "SOCKSPort 9050" -> <<"SOCKSPort", "9050">>
    [] l = "10.0.0.1 port=8080" -> <<"10.0.0.1", "port=8080">>
    [] l = "--dpi-desync fake" -> <<"--dpi-desync", "fake">>
    [] OTHER -> <<>>

\* s.split(':', 1); <<>> without a colon
ColonSplit(s) ==
  CASE s = "m:pw" -> <<"m", "pw">>
    [] s = "h:8388" -> <<"h", "8388">>
    [] s = "h:443" -> <<"h", "443">>
    [] s = "h:x" -> <<"h", "x">>
    [] OTHER -> <<>>

\* s.lower()
Lower(s) ==
  CASE s = "PublicKey" -> "publickey"
    [] s = "PrivateKey" -> "privatekey"
    [] s = "S1" -> "s1"
    [] s = "Jc" -> "jc"
    [] s = "SOCKSPort" -> "socksport"
    [] s = "MIIF" -> "miif"
    [] OTHER -> s

\* the strings int() accepts, and what it makes of them
Numerals == {"4", "120", "443", "1194", "8080", "8388", "9050"}

ToInt(s) ==
  CASE s = "4" -> 4
    [] s = "120" -> 120
    [] s = "443" -> 443
    [] s = "1194" -> 1194
    [] s = "8080" -> 8080
    [] s = "8388" -> 8388
    [] s = "9050" -> 9050
    [] OTHER -> 0

\* base64.b64decode(s).decode('utf-8') of a string padded to a multiple of
\* four characters; "!" when either raises
B64Decode(s) ==
  CASE s = "bTpwdw==" -> "m:pw"
    [] s = "eyJhZGQiOiJoIiwicG9ydCI6IjQ0MyJ9" -> "{\"add\":\"h\",\"port\":\"443\"}"
    [] s = "eyJhZGQiOiJoIiwicG9ydCI6IngifQ" -> "{\"add\":\"h\",\"port\":\"x\"}"
    [] s = "aGVsbG8" -> "hello"
    [] OTHER -> "!"

EmptyDict == [k \in {} |-> ""]

\* d[k] = v
Put(d, k, v) == (k :> v) @@ d

\* json.loads of a one-line text: <<doc>>, or <<>> when it raises
Loads(s) ==
  CASE s = "{\"outbounds\":[]}" -> <<[outbounds |-> <<>>]>>
    [] s = "{\"inbounds\":[]}" -> <<[inbounds |-> <<>>]>>
    [] s = "{\"add\":\"h\",\"port\":\"443\"}" -> <<[add |-> "h", port |-> "443"]>>
    [] s = "{\"add\":\"h\",\"port\":\"x\"}" -> <<[add |-> "h", port |-> "x"]>>
    [] OTHER -> <<>>

\* json.loads(data): a text of several lines of the vocabulary is no JSON
LoadsText(data) ==
  IF Len(Strip(data)) = 1 THEN Loads(Strip(data)[1]) ELSE <<>>

\* the pieces the URL decoders cut a URL line into: at, whether it has an
\* '@'; user, what stands before the '@'; host and port, what stands around
\* the ':' after it; params, the query after '?'; frag, what follows '#'
NoUrl ==
  [at |-> FALSE, user |-> "", host |-> "", port |-> "", params |-> EmptyDict,
   frag |-> ""]

Url(l) ==
  CASE l = "ss://bTpwdw==@h:8388" ->
         [NoUrl EXCEPT !.at = TRUE, !.user = "bTpwdw==", !.host = "h", !.port = "8388"]
    [] l = "ss://m:pw@h:x" ->
         [NoUrl EXCEPT !.at = TRUE, !.user = "m:pw", !.host = "h", !.port = "x"]
    [] l = "ss://bTpwdw==" -> [NoUrl EXCEPT !.host = "bTpwdw=="]
    [] l = "trojan://pw@h:443" ->
         [NoUrl EXCEPT !.at = TRUE, !.user = "pw", !.host = "h", !.port = "443"]
    [] l = "trojan://pw@" -> [NoUrl EXCEPT !.at = TRUE, !.user = "pw"]
    [] l = "vless://u@h:443" ->
         [NoUrl EXCEPT !.at = TRUE, !.user = "u", !.host = "h", !.port = "443"]
    [] l = "vless://u@h:x" ->
         [NoUrl EXCEPT !.at = TRUE, !.user = "u", !.host = "h", !.port = "x"]
    [] l = "vless://u@" -> [NoUrl EXCEPT !.at = TRUE, !.user = "u"]
    [] l = "wg://k@e" -> [NoUrl EXCEPT !.at = TRUE, !.user = "k", !.host = "e"]
    [] l = "hysteria://h:443?auth=a" ->
         [NoUrl EXCEPT !.host = "h", !.port = "443", !.params = [auth |-> "a"]]
    [] l = "hy2://h:x?auth=a" ->
         [NoUrl EXCEPT !.host = "h", !.port = "x", !.params = [auth |-> "a"]]
    [] l = "hy2://h:443" -> [NoUrl EXCEPT !.host = "h", !.port = "443"]
    [] l \in MarkedUrls ->
         [NoUrl EXCEPT !.host = "x",
                       !.frag = "[Interface] [Peer] Jc client dev tun SOCKSPort"]
    [] OTHER -> NoUrl

\* url[8:] of a vmess line, padded with '='
VmessBody(l) ==
  CASE l = "vmess://eyJhZGQiOiJoIiwicG9ydCI6IjQ0MyJ9" -> "eyJhZGQiOiJoIiwicG9ydCI6IjQ0MyJ9"
    [] l = "vmess://eyJhZGQiOiJoIiwicG9ydCI6IngifQ" -> "eyJhZGQiOiJoIiwicG9ydCI6IngifQ"
    [] l = "vmess://aGVsbG8" -> "aGVsbG8"
    [] l = "vmess://abcde" -> "abcde"
    [] OTHER -> "x#[Interface] [Peer] Jc client dev tun SOCKSPort"

\* an exception leaving a decoder, as the value the decoder yields
Raise(msg) == [raise |-> msg]

Raised(d) == "raise" \in DOMAIN d

\* ---------------------------------------------------------------- detection
\* the detection with the scheme prefixes looked at last, after the
\* structural heuristics
DetectHeuristicsFirst(data) ==
  LET d == Strip(data) IN
  IF In("[Interface]", d) /\ In("[Peer]", d)
  THEN IF In("Jc", d) \/ In("Jmin", d) THEN "amneziawg" ELSE "wireguard"
  ELSE IF In("client", d) /\ In("dev tun", d) THEN "openvpn"
  ELSE IF StartsWith(d, "{") /\ LoadsText(d) # <<>>
          /\ "outbounds" \in DOMAIN LoadsText(d)[1] THEN "sing-box"
  ELSE IF StartsWith(d, "{") /\ LoadsText(d) # <<>>
          /\ "inbounds" \in DOMAIN LoadsText(d)[1] THEN "xray"
  ELSE IF In("SOCKSPort", d) \/ In("torrc", d) THEN "tor"
  ELSE IF StartsWith(d, "ss://") THEN "shadowsocks"
  ELSE IF StartsWith(d, "trojan://") THEN "trojan"
  ELSE IF StartsWith(d, "vless://") \/ StartsWith(d, "vmess://") THEN "xray"
  ELSE IF StartsWith(d, "wg://") \/ StartsWith(d, "wireguard://") THEN "wireguard"
  ELSE IF StartsWith(d, "amnezia://") THEN "amneziawg"
  ELSE IF StartsWith(d, "hysteria://") \/ StartsWith(d, "hy2://") THEN "hysteria2"
  ELSE "unknown"

\* _detect_protocol(data), lines 110-153
_detect_protocol(data) ==
  LET d == Strip(data) IN
  IF StartsWith(d, "ss://") THEN "shadowsocks"
  ELSE IF StartsWith(d, "trojan://") THEN "trojan"
  ELSE IF StartsWith(d, "vless://") \/ StartsWith(d, "vmess://") THEN "xray"
  ELSE IF StartsWith(d, "wg://") \/ StartsWith(d, "wireguard://") THEN "wireguard"
  ELSE IF StartsWith(d, "amnezia://") THEN "amneziawg"
  ELSE IF StartsWith(d, "hysteria://") \/ StartsWith(d, "hy2://") THEN "hysteria2"
  ELSE IF In("[Interface]", d) /\ In("[Peer]", d)
  THEN IF In("Jc", d) \/ In("Jmin", d) THEN "amneziawg" ELSE "wireguard"
  ELSE IF In("client", d) /\ In("dev tun", d) THEN "openvpn"
  ELSE IF StartsWith(d, "{") /\ LoadsText(d) # <<>>
          /\ "outbounds" \in DOMAIN LoadsText(d)[1] THEN "sing-box"
  ELSE IF StartsWith(d, "{") /\ LoadsText(d) # <<>>
          /\ "inbounds" \in DOMAIN LoadsText(d)[1] THEN "xray"
  ELSE IF In("SOCKSPort", d) \/ In("torrc", d) THEN "tor"
  ELSE "unknown"

\* ----------------------------------------------------------------- decoders
\* min(self.kvm_resources.get("cpu_count", 4), n)
CpuQueues(n) ==
  IF parser_resources.cpu_count < n THEN parser_resources.cpu_count ELSE n

\* _parse_wireguard_url(url), lines 211-251
_parse_wireguard_url(data) ==
  LET u == Url(data[1])
      named == IF u.frag # "" THEN [name |-> u.frag] ELSE EmptyDict
  IN named @@
     [type |-> "wireguard",
      interface |-> IF u.at THEN u.params @@ [privatekey |-> u.user] ELSE u.params,
      peers |-> IF u.at THEN <<[endpoint |-> u.host]>> ELSE <<>>,
      kvm_optimizations |-> [multiqueue |-> TRUE,
                             rx_queues |-> parser_resources.cpu_count]]

\* _parse_wireguard, lines 178-198: one line of the INI loop; st holds
\* current_section, current_peer and the interface and peers of the result
WgLine(st, l) ==
  IF l = "" THEN st
  ELSE IF Bracketed(l)
  THEN IF Inner(l) = "Peer"
       THEN [st EXCEPT !.section = "Peer",
                       !.peers = IF DOMAIN st.peer # {}
                                 THEN Append(@, st.peer) ELSE @,
                       !.peer = EmptyDict]
       ELSE [st EXCEPT !.section = Inner(l)]
  ELSE IF EqSplit(l) # <<>>
  THEN LET key == Lower(EqSplit(l)[1])
           value == EqSplit(l)[2]
       IN IF st.section = "Interface"
          THEN [st EXCEPT !.interface = Put(@, key, value)]
          ELSE IF st.section = "Peer"
          THEN [st EXCEPT !.peer = Put(@, key, value)]
          ELSE st
  ELSE st

RECURSIVE WgLoop(_, _, _)
WgLoop(data, i, st) ==
  IF i > Len(data) THEN st ELSE WgLoop(data, i + 1, WgLine(st, data[i]))

AwgParams == {"jc", "jmin", "jmax", "s1", "s2", "h1", "h2", "h3", "h4"}

\* _parse_wireguard(data), lines 155-209
_parse_wireguard(data) ==
  IF StartsWith(data, "wg://") \/ StartsWith(data, "wireguard://")
  THEN _parse_wireguard_url(data)
  ELSE LET st == WgLoop(data, 1, [section |-> "None", peer |-> EmptyDict,
                                  interface |-> EmptyDict, peers |-> <<>>])
       IN [type |-> IF AwgParams \cap DOMAIN st.interface # {}
                    THEN "amneziawg" ELSE "wireguard",
           interface |-> st.interface,
           peers |-> IF DOMAIN st.peer # {} THEN Append(st.peers, st.peer)
                     ELSE st.peers,
           kvm_optimizations |-> [multiqueue |-> TRUE, rx_queues |-> CpuQueues(8),
                                  tx_queues |-> CpuQueues(8), vhost_net |-> TRUE]]

\* _parse_amneziawg(data), lines 253-271
_parse_amneziawg(data) ==
  LET r == _parse_wireguard(data) IN
  [r EXCEPT !["type"] = "amneziawg",
            !["interface"] =
               @ @@ [jc |-> "4", jmin |-> "30", jmax |-> "50", s1 |-> "120",
                     s2 |-> "150"]]

\* _parse_openvpn, lines 293-344: one line of the loop; st holds
\* current_inline, inline_content, the parts of the result and the exception
\* a line has raised
OvpnLine(st, l) ==
  IF st.exc # "" \/ l = "" THEN st
  ELSE IF Angled(l)
  THEN [st EXCEPT !.current_inline = Inner(l), !.inline_content = <<>>]
  ELSE IF Closing(l)
  THEN IF st.current_inline # "None"
       THEN [st EXCEPT !.inline_keys =
                          Put(@, Lower(st.current_inline), st.inline_content),
                       !.current_inline = "None"]
       ELSE st
  ELSE IF st.current_inline # "None"
  THEN [st EXCEPT !.inline_content = Append(@, l)]
  ELSE LET parts == Words(l) IN
       IF Lower(parts[1]) = "remote" /\ Len(parts) >= 2
       THEN IF Len(parts) >= 3 /\ parts[3] \notin Numerals
            THEN [st EXCEPT !.exc = "invalid literal for int()"]
            ELSE [st EXCEPT !.remote =
                    Append(@, [server |-> parts[2],
                               port |-> IF Len(parts) >= 3 THEN ToInt(parts[3])
                                        ELSE 1194,
                               proto |-> IF Len(parts) >= 4 THEN parts[4]
                                         ELSE "udp"])]
       ELSE IF Lower(parts[1]) = "dev"
       THEN [st EXCEPT !.dev = <<IF Len(parts) > 1 THEN parts[2] ELSE "tun">>]
       ELSE st

RECURSIVE OvpnLoop(_, _, _)
OvpnLoop(data, i, st) ==
  IF i > Len(data) THEN st ELSE OvpnLoop(data, i + 1, OvpnLine(st, data[i]))

\* _parse_openvpn(data), lines 273-346; inline_keys maps a tag to the lines
\* of its block
_parse_openvpn(data) ==
  LET st == OvpnLoop(data, 1, [current_inline |-> "None", inline_content |-> <<>>,
                               inline_keys |-> EmptyDict, remote |-> <<>>,
                               dev |-> <<>>, exc |-> ""])
      dev == IF st.dev # <<>> THEN [dev |-> st.dev[1]] ELSE EmptyDict
  IN IF st.exc # "" THEN Raise(st.exc)
     ELSE dev @@
          [type |-> "openvpn", mode |-> "client", remote |-> st.remote,
           inline_keys |-> st.inline_keys,
           kvm_optimizations |-> [tun_queue |-> parser_resources.virtio_queues,
                                  tcp_fastopen |-> TRUE]]

\* urlparse(url).port or 443, lines 390 and 479: <<port>>, or <<>> when the
\* port is no number and the property raises ValueError
UrlPort(u) ==
  IF u.port = "" THEN <<443>>
  ELSE IF u.port \in Numerals THEN <<ToInt(u.port)>> ELSE <<>>

\* _parse_vless_url(url), lines 381-424
_parse_vless_url(data) ==
  LET u == Url(data[1])
      named == IF u.frag # "" THEN [name |-> u.frag] ELSE EmptyDict
  IN IF UrlPort(u) = <<>> THEN Raise("Port could not be cast to integer value")
     ELSE named @@
          [type |-> "xray", protocol |-> "vless", uuid |-> u.user,
           server |-> u.host, port |-> UrlPort(u)[1],
           kvm_optimizations |-> [tcp_fastopen |-> TRUE, multicore |-> TRUE]]

\* what _parse_vmess_url returns from its except clause, lines 462-468
VmessError(msg) ==
  [type |-> "xray", protocol |-> "vmess", error |-> msg,
   kvm_optimizations |-> EmptyDict]

\* _parse_vmess_url(url), lines 426-468
_parse_vmess_url(data) ==
  LET json_str == B64Decode(VmessBody(data[1])) IN
  IF json_str = "!" THEN VmessError("Invalid base64-encoded string")
  ELSE IF Loads(json_str) = <<>> THEN VmessError("Expecting value")
  ELSE LET vmess == Loads(json_str)[1] IN
       IF "port" \in DOMAIN vmess /\ vmess.port \notin Numerals
       THEN VmessError("invalid literal for int()")
       ELSE [type |-> "xray", protocol |-> "vmess",
             server |-> IF "add" \in DOMAIN vmess THEN vmess.add ELSE "",
             port |-> IF "port" \in DOMAIN vmess THEN ToInt(vmess.port) ELSE 443,
             aid |-> 0,
             kvm_optimizations |-> [tcp_fastopen |-> TRUE, multicore |-> TRUE]]

\* _parse_trojan_url(url), lines 470-502
_parse_trojan_url(data) ==
  LET u == Url(data[1])
      named == IF u.frag # "" THEN [name |-> u.frag] ELSE EmptyDict
  IN IF UrlPort(u) = <<>> THEN Raise("Port could not be cast to integer value")
     ELSE named @@
          [type |-> "trojan", protocol |-> "trojan", password |-> u.user,
           server |-> u.host, port |-> UrlPort(u)[1],
           kvm_optimizations |-> [tcp_fastopen |-> TRUE, multicore |-> TRUE]]

\* _parse_xray_json(config), lines 504-526
_parse_xray_json(config) ==
  LET inb == IF "inbounds" \in DOMAIN config THEN config.inbounds ELSE <<>>
      outb == IF "outbounds" \in DOMAIN config THEN config.outbounds ELSE <<>>
  IN [type |-> "xray",
      protocol |-> IF outb # <<>> THEN outb[1].protocol ELSE "xray",
      inbounds |-> inb, outbounds |-> outb,
      kvm_optimizations |-> [tcp_fastopen |-> TRUE, multicore |-> TRUE,
                             sniffing |-> TRUE]]

\* _parse_xray(data), lines 348-379
_parse_xray(data) ==
  IF StartsWith(Strip(data), "{") /\ LoadsText(data) # <<>>
  THEN _parse_xray_json(LoadsText(data)[1])
  ELSE IF StartsWith(data, "vless://") THEN _parse_vless_url(data)
  ELSE IF StartsWith(data, "vmess://") THEN _parse_vmess_url(data)
  ELSE IF StartsWith(data, "trojan://") THEN _parse_trojan_url(data)
  ELSE [type |-> "xray", protocol |-> "None", settings |-> EmptyDict,
        stream_settings |-> EmptyDict,
        kvm_optimizations |-> [tcp_fastopen |-> TRUE, bbr_congestion |-> TRUE,
                               multicore |-> TRUE, sniffing |-> TRUE]]

\* _parse_shadowsocks(data), lines 528-578, for a text of one line: the
\* credentials are base64 or plain, and a port that is no number ends the
\* decoding in the inner except clause, which stores the message in "error"
_parse_shadowsocks(data) ==
  LET u == Url(data[1])
      named == IF u.frag # "" THEN [name |-> u.frag] ELSE EmptyDict
      auth == IF B64Decode(u.user) # "!" THEN ColonSplit(B64Decode(u.user))
              ELSE ColonSplit(u.user)
      badport == u.at /\ u.port # "" /\ u.port \notin Numerals
      failed == IF badport THEN [error |-> "invalid literal for int()"]
                ELSE EmptyDict
  IN named @@ failed @@
     [type |-> "shadowsocks",
      method |-> IF u.at /\ auth # <<>> THEN auth[1] ELSE "None",
      password |-> IF u.at /\ auth # <<>> THEN auth[2] ELSE "None",
      server |-> IF u.at /\ u.port # "" THEN u.host ELSE "None",
      port |-> IF u.at /\ u.port \in Numerals THEN ToInt(u.port) ELSE "None",
      plugin |-> "None",
      kvm_optimizations |-> [tcp_fastopen |-> TRUE, reuse_port |-> TRUE]]

\* _parse_trojan(data), lines 580-601
_parse_trojan(data) ==
  IF StartsWith(data, "trojan://") THEN _parse_trojan_url(data)
  ELSE IF LoadsText(data) # <<>>
  THEN [type |-> "trojan", protocol |-> "trojan", config |-> LoadsText(data)[1],
        kvm_optimizations |-> [tcp_fastopen |-> TRUE, multicore |-> TRUE]]
  ELSE [type |-> "trojan", error |-> "Invalid format",
        kvm_optimizations |-> EmptyDict]

\* _parse_singbox(data), lines 603-640
_parse_singbox(data) ==
  LET base == [type |-> "sing-box", protocol |-> "sing-box",
               kvm_optimizations |-> [tcp_fastopen |-> TRUE, multicore |-> TRUE,
                                      bbr |-> TRUE, wireguard_multiqueue |-> TRUE]]
  IN IF LoadsText(data) = <<>> THEN [error |-> "Expecting value"] @@ base
     ELSE LET config == LoadsText(data)[1]
              outs == IF "outbounds" \in DOMAIN config
                      THEN [outbounds |-> config.outbounds] ELSE EmptyDict
              ins == IF "inbounds" \in DOMAIN config
                     THEN [inbounds |-> Len(config.inbounds)] ELSE EmptyDict
          IN outs @@ ins @@ [config |-> config] @@ base

\* _parse_hysteria2(data), lines 642-684
_parse_hysteria2(data) ==
  LET base == [type |-> "hysteria2", protocol |-> "hysteria2",
               kvm_optimizations |-> [quic |-> TRUE, bbr |-> TRUE,
                                      fast_open |-> TRUE]]
      u == Url(data[1])
  IN IF StartsWith(data, "hysteria://") \/ StartsWith(data, "hy2://")
     THEN IF DOMAIN u.params = {} THEN base
          ELSE IF u.port # "" /\ u.port \notin Numerals
          THEN Raise("invalid literal for int()")
          ELSE u.params @@
               [server |-> u.host,
                port |-> IF u.port = "" THEN 443 ELSE ToInt(u.port)] @@ base
     ELSE IF LoadsText(data) # <<>>
     THEN [config |-> LoadsText(data)[1]] @@ base
     ELSE base

RECURSIVE TorLoop(_, _, _)
TorLoop(data, i, settings) ==
  IF i > Len(data) THEN settings
  ELSE TorLoop(data, i + 1,
               IF data[i] # "" /\ SpaceSplit(data[i]) # <<>>
               THEN Put(settings, Lower(SpaceSplit(data[i])[1]),
                        SpaceSplit(data[i])[2])
               ELSE settings)

\* _parse_tor(data), lines 686-713
_parse_tor(data) ==
  LET settings == TorLoop(data, 1, EmptyDict)
      socks == IF "SOCKSPort" \notin DOMAIN settings
               THEN [SOCKSPort |-> "9050"] ELSE EmptyDict
      control == IF "ControlPort" \notin DOMAIN settings
                 THEN [ControlPort |-> "9051"] ELSE EmptyDict
  IN [type |-> "tor", protocol |-> "tor",
      settings |-> socks @@ control @@ settings,
      kvm_optimizations |-> [num_cpus |-> CpuQueues(2), max_mem |-> 512]]

\* _parse_dpi_bypass(protocol, data), lines 715-743, for a text of one line
\* with at most one option
_parse_dpi_bypass(protocol, data) ==
  LET args == Words(data[1])
      settings == IF args # <<>> /\ args[1] = "--dpi-desync"
                  THEN [x \in {"dpi-desync"} |->
                          IF Len(args) > 1 THEN args[2] ELSE "True"]
                  ELSE EmptyDict
  IN [type |-> protocol, protocol |-> protocol, settings |-> settings,
      kvm_optimizations |-> [nftables |-> TRUE,
                             queue |-> parser_resources.virtio_queues]]

\* _parse_generic(data), lines 745-771
_parse_generic(data) ==
  LET found == UNION {Matches(data[i]) : i \in DOMAIN data} IN
  [type |-> "unknown", raw_data |-> data,
   detected |-> (IF "ip" \in found THEN <<"IPs">> ELSE <<>>)
                \o (IF "port" \in found THEN <<"Ports">> ELSE <<>>)
                \o (IF "base64" \in found
                    THEN <<"Contains cryptographic keys">> ELSE <<>>)]

\* -------------------------------------------------------------------- parse
\* the common optimizations with the time of the call stored among them
KvmOptimizationsStamped ==
  [virtio_enabled |-> parser_resources.virtio_net,
   cpu_count |-> parser_resources.cpu_count,
   memory_mb |-> parser_resources.memory_mb,
   virtio_queues |-> parser_resources.virtio_queues,
   probed_at |-> now]

\* _get_kvm_optimizations(), lines 773-780
_get_kvm_optimizations ==
  [virtio_enabled |-> parser_resources.virtio_net,
   cpu_count |-> parser_resources.cpu_count,
   memory_mb |-> parser_resources.memory_mb,
   virtio_queues |-> parser_resources.virtio_queues]

\* _get_protocol_kvm_optimizations(protocol, parsed), lines 782-814
_get_protocol_kvm_optimizations(protocol) ==
  IF protocol \in {"wireguard", "amneziawg"}
  THEN [multiqueue |-> TRUE, rx_queues |-> CpuQueues(8),
        tx_queues |-> CpuQueues(8), vhost_net |-> TRUE]
  ELSE IF protocol \in {"xray", "sing-box"}
  THEN [tcp_fastopen |-> TRUE, bbr_congestion |-> TRUE, multicore |-> TRUE,
        sniffing |-> TRUE]
  ELSE IF protocol = "openvpn"
  THEN [tun_queue |-> parser_resources.virtio_queues, tcp_fastopen |-> TRUE]
  ELSE IF protocol = "tor"
  THEN [num_cpus |-> CpuQueues(2), max_mem |-> 512]
  ELSE EmptyDict

\* _validate_config(protocol, config), lines 816-841: the warnings it appends
_validate_config(protocol, config) ==
  IF protocol \in {"wireguard", "amneziawg"}
  THEN (IF "interface" \notin DOMAIN config \/ DOMAIN config["interface"] = {}
        THEN <<"no Interface section">> ELSE <<>>)
       \o (IF "peers" \notin DOMAIN config \/ Len(config["peers"]) = 0
           THEN <<"no peers">> ELSE <<>>)
  ELSE IF protocol = "openvpn"
  THEN IF "remote" \notin DOMAIN config \/ Len(config["remote"]) = 0
       THEN <<"no remote server">> ELSE <<>>
  ELSE IF protocol \in {"xray", "vless", "vmess", "trojan"}
  THEN (IF "server" \notin DOMAIN config \/ config["server"] \in {"", "None"}
        THEN <<"no server">> ELSE <<>>)
       \o (IF "port" \notin DOMAIN config THEN <<"no port">> ELSE <<>>)
  ELSE <<>>

\* parse, lines 72-93: the decoder chosen by the protocol name
Decode(protocol, data) ==
  CASE protocol = "wireguard" -> _parse_wireguard(data)
    [] protocol = "amneziawg" -> _parse_amneziawg(data)
    [] protocol = "openvpn" -> _parse_openvpn(data)
    [] protocol = "xray" -> _parse_xray(data)
    [] protocol = "shadowsocks" -> _parse_shadowsocks(data)
    [] protocol = "trojan" -> _parse_trojan(data)
    [] protocol = "sing-box" -> _parse_singbox(data)
    [] protocol = "hysteria2" -> _parse_hysteria2(data)
    [] protocol = "tor" -> _parse_tor(data)
    [] protocol \in {"zapret", "byedpi", "goodbyedpi"} ->
         _parse_dpi_bypass(protocol, data)
    [] OTHER -> _parse_generic(data)

\* an except clause that records the message and reports success
FailedButParsed(result, msg) ==
  [result EXCEPT !["errors"] = Append(@, msg), !["parsed"] = TRUE]

\* parse, lines 104-106: the except clause
Failed(result, msg) ==
  [result EXCEPT !["errors"] = Append(@, msg), !["parsed"] = FALSE]

\* parse(protocol, data), lines 40-108
parse(protocol, data) ==
  LET auto == protocol = "auto" \/ protocol = ""
      proto == IF auto THEN _detect_protocol(data) ELSE protocol
      result == (IF auto THEN [auto_detected |-> TRUE] ELSE EmptyDict) @@
                [timestamp |-> now, protocol |-> proto, parsed |-> FALSE,
                 kvm_optimizations |-> _get_kvm_optimizations,
                 warnings |-> IF proto \notin supported_protocols
                              THEN <<"protocol may be unsupported">> ELSE <<>>,
                 errors |-> <<>>]
      parsed == Decode(proto, data)
  IN IF Raised(parsed) THEN Failed(result, parsed.raise)
     ELSE LET updated ==
                Put(Put(parsed @@ result, "parsed", TRUE), "kvm_specific",
                    _get_protocol_kvm_optimizations(proto))
          IN [updated EXCEPT !["warnings"] = @ \o _validate_config(proto, updated)]

\* ------------------------------------------------------------ parser runs
svars == <<services, order, orphan, kvm_resources, running, th, it, procs,
           pidfile, cgroup, hostMem, monStarts, ops, scope>>

\* a caller calls parse with the request of the run
Parse ==
  /\ Len(results) < MaxCalls
  /\ results' = Append(results, parse(request.protocol, request.data))
  /\ now' = now + 1
  /\ UNCHANGED <<request, tags, svars, ovars>>

\* a caller calls _detect_protocol on the text of the request
Detect ==
  /\ Len(tags) < MaxCalls
  /\ tags' = Append(tags, _detect_protocol(request.data))
  /\ UNCHANGED <<request, results, now, svars, ovars>>

\* a parser of its own: no service manager is at work beside it
InitParser ==
  /\ scope = {}
  /\ services = <<>>
  /\ order = <<>>
  /\ orphan = <<>>
  /\ hostMem = MemFloorMB + 512
  /\ kvm_resources = [memory_available_mb |-> hostMem]
  /\ running = FALSE
  /\ th = [t \in Threads |-> IF t = "mon" THEN [Idle EXCEPT !.pc = "off"] ELSE Idle]
  /\ it = [idx |-> 0, size |-> 0]
  /\ procs = [p \in PIDs |-> NoProc]
  /\ pidfile = [n \in Names |-> NoPid]
  /\ cgroup = [n \in Names |-> NoCgroup]
  /\ monStarts = [n \in Names |-> 0]
  /\ ops = 0
  /\ request \in Requests
  /\ results = <<>>
  /\ tags = <<>>
  /\ now = 0
  /\ protocols = <<>>
  /\ nftables_initialized = FALSE
  /\ orch = [left |-> 0, call |-> "none", name |-> "none", ret |-> "none"]

NextParser ==
  \/ Parse
  \/ Detect

SpecParser == InitParser /\ [][NextParser]_vars

\* ------------------------------------------------------- parser claims
\* C22: in every result parse returns, a non-empty errors list implies
\* parsed = false.
C22_ErrorsImplyNotParsed ==
  \A i \in DOMAIN results :
    Len(results[i]["errors"]) > 0 => results[i]["parsed"] = FALSE

\* C22, witness: parse has returned a result that carries an error, the
\* decoder having raised on a port that is no number
C22_Witness ==
  \E i \in DOMAIN results :
    /\ Len(results[i]["errors"]) > 0
    /\ results[i]["parsed"] = FALSE
    /\ Raised(Decode(results[i]["protocol"], request.data))

\* the protocol parse works with: the name passed, or the detected one
Effective(req) ==
  IF req.protocol = "auto" \/ req.protocol = ""
  THEN _detect_protocol(req.data) ELSE req.protocol

\* the decoder of the request meets base64 it cannot decode, malformed JSON
\* or a port that is no number
FatalDecodeFailure(req) ==
  /\ Len(req.data) = 1
  /\ LET l == req.data[1]
         proto == Effective(req)
     IN \/ /\ proto = "xray"
           /\ Prefix(l) = "vmess://"
           /\ \/ B64Decode(VmessBody(l)) = "!"
              \/ Loads(B64Decode(VmessBody(l))) = <<>>
              \/ /\ "port" \in DOMAIN Loads(B64Decode(VmessBody(l)))[1]
                 /\ Loads(B64Decode(VmessBody(l)))[1].port \notin Numerals
        \/ /\ \/ proto = "xray" /\ Prefix(l) \in {"vless://", "trojan://"}
              \/ proto = "trojan" /\ Prefix(l) = "trojan://"
              \/ proto = "shadowsocks" /\ Prefix(l) = "ss://"
              \/ proto = "hysteria2" /\ Prefix(l) \in {"hysteria://", "hy2://"}
           /\ Url(l).port \notin Numerals \cup {""}
        \/ /\ proto \in {"trojan", "sing-box"}
           /\ Prefix(l) = "{"
           /\ Loads(l) = <<>>
        \/ /\ proto = "openvpn"
           /\ Len(Words(l)) >= 3
           /\ Words(l)[1] = "remote"
           /\ Words(l)[3] \notin Numerals

\* C23: for every input whose decoding hits a fatal decode failure, parse
\* returns with parsed = false and a diagnostic in errors.
C23_FatalDecodeReported ==
  \A i \in DOMAIN results :
    FatalDecodeFailure(request) =>
      results[i]["parsed"] = FALSE /\ Len(results[i]["errors"]) > 0

\* the request leaves the protocol to detection and detection finds no
\* scheme prefix and no structural marker
ClassifiedUnknown(req) ==
  /\ req.protocol \in {"auto", ""}
  /\ _detect_protocol(req.data) = "unknown"

\* C24: for every input classified as unknown, parse dispatches to the
\* generic decoder and the result has parsed = false.
C24_UnknownNeverParsed ==
  \A i \in DOMAIN results :
    ClassifiedUnknown(request) =>
      /\ results[i]["protocol"] = "unknown"
      /\ "type" \in DOMAIN results[i] => results[i]["type"] = "unknown"
      /\ results[i]["parsed"] = FALSE

\* the protocol tag documented for a URI scheme prefix
SchemeTag(p) ==
  CASE p = "ss://" -> "shadowsocks"
    [] p = "trojan://" -> "trojan"
    [] p \in {"vless://", "vmess://"} -> "xray"
    [] p = "wg://" -> "wireguard"
    [] p \in {"hysteria://", "hy2://"} -> "hysteria2"

ClaimedSchemes ==
  {"ss://", "trojan://", "vless://", "vmess://", "wg://", "hysteria://", "hy2://"}

\* the text of the request starts with one of the scheme prefixes
SchemeInput == \E p \in ClaimedSchemes : StartsWith(request.data, p)

\* C25: for every input that starts with a supported URI scheme prefix,
\* detection returns that scheme's protocol tag whatever the rest of the text
\* contains, and two detections of the same text return the same tag.
C25_SchemePrefixDecides ==
  SchemeInput =>
    /\ \A i \in DOMAIN tags : tags[i] = SchemeTag(Prefix(request.data[1]))
    /\ \A i, j \in DOMAIN tags : tags[i] = tags[j]

\* C25, witness: a URL whose rest holds the Interface, Peer, OpenVPN and Tor
\* markers has been through detection twice
C25_Witness ==
  /\ SchemeInput
  /\ In("[Interface]", request.data) /\ In("[Peer]", request.data)
  /\ In("client", request.data) /\ In("SOCKSPort", request.data)
  /\ Len(tags) = 2
  /\ tags[1] = SchemeTag(Prefix(request.data[1]))

\* the text has an Interface and a Peer section, and its Interface section
\* holds one of the keys only AmneziaWG knows
AwgStyleInput(data) ==
  /\ In("[Interface]", data)
  /\ In("[Peer]", data)
  /\ AwgParams \cap DOMAIN _parse_wireguard(data)["interface"] # {}

\* C26: with protocol hint auto, a WireGuard-style input whose Interface
\* section contains any AmneziaWG-only key is classified amneziawg, and the
\* protocol of the returned result is amneziawg.
C26_AwgKeyMeansAmneziawg ==
  request.protocol = "auto" /\ AwgStyleInput(request.data) =>
    /\ \A i \in DOMAIN tags : tags[i] = "amneziawg"
    /\ \A i \in DOMAIN results : results[i]["protocol"] = "amneziawg"

\* the positions of the [Peer] headers of a text, and the k-th of them
PeerHeaders(data) == {i \in DOMAIN data : data[i] = "[Peer]"}

PeerHeaderAt(data, k) ==
  CHOOSE h \in PeerHeaders(data) :
    Cardinality({g \in PeerHeaders(data) : g < h}) = k - 1

\* the key = value lines of the block that the header at position h opens:
\* those between it and the next section header
BlockLines(data, h) ==
  {j \in DOMAIN data : /\ j > h
                       /\ \A m \in (h + 1)..j : ~Bracketed(data[m])
                       /\ EqSplit(data[j]) # <<>>}

\* the entry that block stands for: its keys, lower-cased, each with the
\* value of its last line
BlockEntry(data, h) ==
  LET lines == BlockLines(data, h)
      keyOf(j) == Lower(EqSplit(data[j])[1])
  IN [k \in {keyOf(j) : j \in lines} |->
        EqSplit(data[CHOOSE j \in lines :
                       /\ keyOf(j) = k
                       /\ \A j2 \in lines : keyOf(j2) = k => j2 <= j])[2]]

\* one entry per [Peer] block, in file order
PeerBlocks(data) ==
  [k \in 1..Cardinality(PeerHeaders(data)) |->
     BlockEntry(data, PeerHeaderAt(data, k))]

\* the request goes to the INI branch of the WireGuard decoder
WgIniRequest ==
  /\ Effective(request) \in {"wireguard", "amneziawg"}
  /\ ~StartsWith(request.data, "wg://")
  /\ ~StartsWith(request.data, "wireguard://")

\* C27: parsing a WireGuard-style input with N [Peer] blocks yields exactly
\* N peer entries, one per block, in file order; keys that appear before any
\* section header are dropped without an error.
C27_OneEntryPerPeerBlock ==
  WgIniRequest =>
    \A i \in DOMAIN results :
      /\ Len(results[i]["errors"]) = 0
      /\ Len(results[i]["peers"]) = Cardinality(PeerHeaders(request.data))
      /\ results[i]["peers"] = PeerBlocks(request.data)

\* an inline block of the text: the opening tag at line a is the first tag
\* line of the text, the closing tag at line b is the next one, and at least
\* one line stands between them
InlineBlock(data, a, b) ==
  /\ a \in DOMAIN data /\ b \in DOMAIN data
  /\ a + 1 < b
  /\ data[a] = "<ca>" /\ data[b] = "</ca>"
  /\ \A m \in 1..(b - 1) : m # a => ~Angled(data[m])

\* C28: for an OpenVPN input containing an inline block <tag> ... </tag>
\* spanning several lines, inline_keys of the result holds an entry keyed by
\* the lower-cased tag name whose value is the lines between the two tags
\* verbatim, embedded blank lines included.
C28_InlineBlockCaptured ==
  Effective(request) = "openvpn" =>
    \A i \in DOMAIN results :
      \A a, b \in DOMAIN request.data :
        InlineBlock(request.data, a, b) /\ "inline_keys" \in DOMAIN results[i] =>
          /\ "ca" \in DOMAIN results[i]["inline_keys"]
          /\ results[i]["inline_keys"]["ca"] = SubSeq(request.data, a + 1, b - 1)

\* the decoder of the request returned a config and met no decode failure
Decodable(req) ==
  /\ ~Raised(Decode(Effective(req), req.data))
  /\ "error" \notin DOMAIN Decode(Effective(req), req.data)

\* a result lacks a server: no such field, None or the empty string
NoServer(r) == "server" \notin DOMAIN r \/ r["server"] \in {"", "None"}

\* a result lacks a port: no such field (a port of None comes in the
\* vocabulary only with a server of None)
NoPort(r) == "port" \notin DOMAIN r

\* a result lacks its peers or its interface
NoPeerOrInterface(r) ==
  \/ "peers" \notin DOMAIN r \/ Len(r["peers"]) = 0
  \/ "interface" \notin DOMAIN r \/ DOMAIN r["interface"] = {}

\* the warnings validation gives
ValidationWarnings ==
  {"no Interface section", "no peers", "no remote server", "no server", "no port"}

Warned(r) == \E k \in DOMAIN r["warnings"] : r["warnings"][k] \in ValidationWarnings

\* C29: for every structurally decodable input, validation adds a warning
\* when a required field is missing (tunnel protocols: no peer or empty
\* interface; proxy protocols xray, shadowsocks, trojan, hysteria2: no server
\* or no port), and a validation warning alone never sets parsed to false.
C29_MissingFieldWarned ==
  Decodable(request) =>
    \A i \in DOMAIN results :
      /\ results[i]["parsed"] = TRUE
      /\ Effective(request) \in {"wireguard", "amneziawg"}
           /\ NoPeerOrInterface(results[i]) => Warned(results[i])
      /\ Effective(request) \in {"xray", "shadowsocks", "trojan", "hysteria2"}
           /\ (NoServer(results[i]) \/ NoPort(results[i])) => Warned(results[i])

\* a result without the timestamp of its envelope
WithoutTimestamp(r) == [k \in DOMAIN r \ {"timestamp"} |-> r[k]]

MaxProtoCalls == 4

\* ------------------------------------------------------- program constants
KvmMemFloorMB == 512

\* the protocols of the main configuration, and the names a call may carry
Configured == {"xray", "wireguard"}
ProtocolNames == Configured \cup {"tor"}

\* ProtocolConfig, lines 118-133: the fields the lifecycle calls write
NewProtocol == [status |-> "stopped", last_error |-> "None", start_time |-> "None"]

\* _load_configuration, lines 831-849
_load_configuration == [p \in Configured |-> NewProtocol]

\* check_resources, lines 470-485, on the available memory mem that
\* _update_kvm_resources has just read
check_resources(protocol, mem) ==
  ~(protocol \in {"adguardhome", "xray", "hysteria2"} /\ mem < KvmMemFloorMB)

\* _init_nftables, lines 350-373: the flag is set when nft is there and the
\* base tables could be created
_init_nftables(nft) == nftables_initialized \/ nft

\* the call returns r to the caller
OrchReturn(call, protocol, r) ==
  orch' = [left |-> orch.left - 1, call |-> call, name |-> protocol, ret |-> r]

\* start_protocol(protocol), lines 633-682; script: /etc/init.d/<protocol>
\* exists, rc: the return code of its start command, raises: subprocess.run
\* raised, mem: the available memory, nft: nftables could be initialized
start_protocol(protocol) ==
  /\ orch.left > 0
  /\ IF protocol \notin DOMAIN protocols
     THEN /\ OrchReturn("start", protocol, "False")
          /\ UNCHANGED <<protocols, nftables_initialized>>
     ELSE \E mem \in MemLevels, nft \in BOOLEAN, script \in BOOLEAN,
             rc \in {0, 1}, raises \in BOOLEAN :
            IF ~check_resources(protocol, mem)
            THEN /\ protocols' = [protocols EXCEPT
                                    ![protocol].status = "error",
                                    ![protocol].last_error = "Insufficient KVM resources"]
                 /\ OrchReturn("start", protocol, "False")
                 /\ UNCHANGED nftables_initialized
            ELSE /\ nftables_initialized' = _init_nftables(nft)
                 /\ IF script /\ raises
                    THEN /\ protocols' = [protocols EXCEPT
                                            ![protocol].status = "error",
                                            ![protocol].last_error = "exception"]
                         /\ OrchReturn("start", protocol, "False")
                    ELSE IF script /\ rc = 0
                    THEN /\ protocols' = [protocols EXCEPT
                                            ![protocol].status = "running",
                                            ![protocol].start_time = "now"]
                         /\ OrchReturn("start", protocol, "True")
                    ELSE IF script
                    THEN /\ protocols' = [protocols EXCEPT
                                            ![protocol].status = "error",
                                            ![protocol].last_error = "stderr"]
                         /\ OrchReturn("start", protocol, "False")
                    ELSE /\ protocols' = [protocols EXCEPT
                                            ![protocol].status = "starting"]
                         /\ OrchReturn("start", protocol, "None")
  /\ UNCHANGED <<svars, pvars>>

\* stop_protocol(protocol), lines 684-717
stop_protocol(protocol) ==
  /\ orch.left > 0
  /\ IF protocol \notin DOMAIN protocols
     THEN /\ OrchReturn("stop", protocol, "False")
          /\ UNCHANGED protocols
     ELSE \E script \in BOOLEAN, rc \in {0, 1}, raises \in BOOLEAN :
            IF script /\ ~raises /\ rc = 0
            THEN /\ protocols' = [protocols EXCEPT
                                    ![protocol].status = "stopped",
                                    ![protocol].start_time = "None"]
                 /\ OrchReturn("stop", protocol, "True")
            ELSE /\ protocols' = [protocols EXCEPT
                                    ![protocol].status = "stopping"]
                 /\ OrchReturn("stop", protocol, "False")
  /\ UNCHANGED <<svars, pvars, nftables_initialized>>

\* an orchestrator of its own: no service manager and no parser at work
InitOrchestrator ==
  /\ scope = {}
  /\ services = <<>>
  /\ order = <<>>
  /\ orphan = <<>>
  /\ hostMem = MemFloorMB + 512
  /\ kvm_resources = [memory_available_mb |-> hostMem]
  /\ running = FALSE
  /\ th = [t \in Threads |-> IF t = "mon" THEN [Idle EXCEPT !.pc = "off"] ELSE Idle]
  /\ it = [idx |-> 0, size |-> 0]
  /\ procs = [p \in PIDs |-> NoProc]
  /\ pidfile = [n \in Names |-> NoPid]
  /\ cgroup = [n \in Names |-> NoCgroup]
  /\ monStarts = [n \in Names |-> 0]
  /\ ops = 0
  /\ request = [protocol |-> "auto", data |-> <<>>]
  /\ results = <<>>
  /\ tags = <<>>
  /\ now = 0
  /\ protocols = _load_configuration
  /\ nftables_initialized = FALSE
  /\ orch = [left |-> MaxProtoCalls, call |-> "none", name |-> "none", ret |-> "none"]

NextOrchestrator ==
  \/ \E p \in ProtocolNames : start_protocol(p)
  \/ \E p \in ProtocolNames : stop_protocol(p)

SpecOrchestrator == InitOrchestrator /\ [][NextOrchestrator]_vars

\* the step is a start_protocol / stop_protocol call on a configured protocol
StartProtocolReturns ==
  orch' # orch /\ orch'.call = "start" /\ orch'.name \in DOMAIN protocols
StopProtocolReturns ==
  orch' # orch /\ orch'.call = "stop" /\ orch'.name \in DOMAIN protocols

\* C31: no start or stop call returns leaving the record in a transient
\* status: when start returns the status is running or error, when stop
\* returns it is stopped or error (also when no launch script exists or the
\* stop command exits non-zero).
C31_NoTransientAfterReturn ==
  [][/\ StartProtocolReturns =>
          protocols'[orch'.name].status \in {"running", "error"}
     /\ StopProtocolReturns =>
          protocols'[orch'.name].status \in {"stopped", "error"}]_vars

\* the operator's last call was a stop_service(n) that returned success,
\* and the operator has issued no call since
StoppedByOperator(n) ==
  /\ th["op"].pc = "idle"
  /\ th["op"].call = "stop"
  /\ th["op"].name = n
  /\ th["op"].ret = "True"

\* C32: once an operator stop(name) has returned success, and until the
\* operator's next call, the service stays stopped and no backend process
\* is launched for it, whatever a monitor pass that began before or during
\* the stop does.
C32_StoppedStaysStopped ==
  [][\A n \in Names :
       StoppedByOperator(n) /\ StoppedByOperator(n)' =>
         /\ services'[n].status = "stopped"
         /\ LiveOf(n)' \subseteq LiveOf(n)]_vars

\* ------------------------------------------------ two services side by side
MaxOpsPair == 4

\* the types of the pair: one whose pid is found by process name (pgrep),
\* one whose backend writes a pid file
PairTypes == {"xray", "shadowsocks"}

\* the operator alone with two names to register, each with a type of the pair
InitPair == InitIn(Names \X PairTypes, MaxOpsPair)

SpecPair == InitPair /\ [][NextAlone]_vars

\* C33: no two distinct service records hold the same pid at the same time,
\* also when two services run the same backend binary and their pids are
\* found by process-name lookup.
C33_PidHeldByOneRecord ==
  \A n \in Registered, m \in Registered :
    n # m /\ services[n].pid # NoPid => services[n].pid # services[m].pid

\* the operator's start_service(n) is at its launch, having found the record
\* running, and the record holds the pid of a live backend of n
OpRelaunchesLive(n) ==
  /\ th["op"].pc = "s_launch"
  /\ th["op"].name = n
  /\ th["op"].entry[1].status = "running"
  /\ services[n].pid \in LiveOf(n)

\* C34: an operator start(name) on a record that is already running with a
\* live backend does not launch a second backend process: its launch step
\* adds no process for that service, and the one live process stays the one
\* whose pid the record holds.
C34_NoSecondBackend ==
  [][\A n \in Names :
       OpRelaunchesLive(n) /\ th'["op"].pc # "s_launch" =>
         /\ LiveOf(n)' \subseteq LiveOf(n)
         /\ LiveOf(n)' = {services[n].pid}]_vars

\* C35: while monitoring is enabled the monitor loop keeps polling: no
\* interleaving of register_service, start_service or stop_service with a
\* monitor pass ends the monitor thread with an uncaught exception.
C35_MonitorNeverDies == running => th["mon"].pc # "crashed"

\* the monitor thread is running its loop
MonitorAlive == running /\ th["mon"].pc \notin {"off", "crashed"}

\* the record of n is in status running and the backend it stands for is
\* dead: the record holds no pid of a live process
RunningButDead(n) ==
  /\ n \in Registered
  /\ services[n].status = "running"
  /\ services[n].pid \notin Live

\* the monitor has restarted n (its start_service is under way) or has
\* moved the record to error
Handled(n) == n \in Registered /\ services[n].status \in {"starting", "error"}

\* C36: every record in status running is supervised: under fair scheduling
\* of the monitor, and in a run in which the monitor thread never dies, a
\* running record whose backend is dead is restarted or moved to error by
\* the monitor; no running record is skipped.
C36_RunningIsSupervised ==
  \/ <>(th["mon"].pc = "crashed")
  \/ \A n \in Names : (MonitorAlive /\ RunningButDead(n)) ~> Handled(n)

\* C37: a start that ends in error leaves no quota handle behind: whenever
\* a record's status is stopped or error, no service cgroup created for it
\* by start still exists.
C37_NoCgroupWhenStoppedOrError ==
  \A n \in Registered :
    services[n].status \in {"stopped", "error"} => ~cgroup[n].exists

\* C38: register_service on a name that is already registered never
\* discards the runtime state of a record whose backend is alive: a record
\* that holds the pid of a live backend of its service before a
\* register_service call still holds it after the call, and no name is
\* stored twice.
C38_RegisterKeepsLiveRecord ==
  [][RegisterStep =>
       /\ \A n \in Registered :
            services[n].pid \in LiveOf(n) =>
              /\ n \in Registered'
              /\ services'[n].pid = services[n].pid
       /\ \A i \in DOMAIN order', j \in DOMAIN order' :
            order'[i] = order'[j] => i = j]_vars

\* ------------------------------------------- restarts beside operator starts
MaxOpsRestarts == 5

\* one service of a type whose pid is looked up by name; the operator
\* registers it and starts it again and again while the monitor runs
InitRestarts == InitIn({"n1"} \X {"xray"}, MaxOpsRestarts)

SpecRestarts == InitRestarts /\ [][NextSupervised]_vars

\* this step is the store of the monitor's restart_count += 1
MonIncrements == th["mon"].pc = "m_inc" /\ th'["mon"].pc # "m_inc"

\* this step is the restart_count = 0 of a start_service call
StartResets == \E t \in Threads : th[t].pc = "s_fin2" /\ th'[t].pc # "s_fin2"

\* C39: in every reachable state of every service record restart_count is
\* between 0 and 3, and it changes only by the monitor's increment on a
\* detected death or by the reset to 0 in start (a registration stores a
\* record with count 0).
C39_RestartCountBounded ==
  [][\A n \in Registered' :
       /\ services'[n].restart_count \in 0..MaxRestarts
       /\ n \in Registered /\ services'[n].restart_count # services[n].restart_count =>
            \/ MonIncrements
            \/ StartResets /\ services'[n].restart_count = 0
            \/ RegisterStep /\ services'[n].restart_count = 0]_vars

\* the protocol names a parse result may carry: the supported protocols and
\* the tag unknown
ProtocolEnumeration == supported_protocols \cup {"unknown"}

\* C40: the protocol field of every parse result equals the classification
\* used to select the decoder (the protocol passed, or the detected tag when
\* that is auto or empty) and is a member of the protocol enumeration; the
\* decoder's output never overwrites it.
C40_ProtocolIsClassification ==
  \A i \in DOMAIN results :
    /\ results[i]["protocol"] = Effective(request)
    /\ Effective(request) \in ProtocolEnumeration =>
         results[i]["protocol"] \in ProtocolEnumeration

====
